---- MODULE Spec2Model ----
(***************************************************************************)
(* A model of the FantasyLeague core: the fantasy scoring engine           *)
(* (core/scoring.py, core/roles.py) and the demo statistic extraction      *)
(* (core/demo_parser.py).                                                  *)
(*                                                                         *)
(* Python floats are modelled as exact rationals <<n, d>> (d > 0, lowest   *)
(* terms); None is modelled as the empty tuple <<>> for optional numbers   *)
(* and as the string "None" for optional strings.                          *)
(***************************************************************************)
EXTENDS Integers, Sequences, FiniteSets, TLC

VARIABLES
    \* ---- scoring.calc_points: the arguments of one call and what it returns
    stat, played_rounds, winner_team_id, player_team_id, role_badge,
    points, breakdown, spc,
    \* ---- demo_parser._normalize_winner: the argument of one call, its outcome
    w_raw, w_out, npc,
    \* ---- demo_parser.extract_map_stats_from_demo, lines 72-156: the two event
    \*      tables, the sorted ticks, the loop position, the emitted rounds
    freeze_end, round_end, freeze_ticks, re_df, seg_i, rounds, winners,
    seg_result, dpc, derr,
    \* ---- demo_parser.extract_map_stats_from_demo, lines 360-421: the team
    \*      names per round and side, the half boundaries, the team tallies
    round_side_team, base_t, base_ct, base_idx, half_split, ot_start,
    team_score, team_side_score, half_score, tw_i, winner_team, tpc,
    \* ---- demo_parser.extract_map_stats_from_demo, lines 314-354: the
    \*      clutch detection of one round and the clutch tallies in stats
    tm, dr, wteam, alive_t, alive_ct, candidate, ev_i, stats, cpc,
    \* ---- demo_parser.extract_map_stats_from_demo, lines 202-287 and
    \*      356-358: the members of each round, the damage totals, the
    \*      position in the event passes (the player records are in stats)
    round_team, total_dmg, agg_i, agg_ev, apc,
    \* ---- demo_parser.extract_map_stats_from_demo, lines 233-354: the
    \*      player_death and player_hurt tables, the death rows of each round,
    \*      the position of the per-round pass
    deaths_df, hurts_df, deaths_by_round, pass_i,
    \* ---- demo_parser.extract_map_stats_from_demo, lines 160-210: the
    \*      membership samples and the position of the loop over them
    team_rows, mem_i, mpc,
    \* ---- services.recalc_map and api_admin_demo_import.admin_import_demo:
    \*      the map, the committed tables, the commit count, the holder of the
    \*      write lock, and per worker its tables, the commit count it saw,
    \*      its remaining rows, its position; the count of started calls
    game_map, db, db_commits, db_lock, work, seen, todo, wpc, ops,
    \* ---- signals: the _pending attribute of _queue_recalc, and per thread
    \*      whether its atomic block is open, its on_commit callbacks and the
    \*      map ids whose stat rows it has written; the map ids with a
    \*      committed stat write that no recalc_map call has followed; the
    \*      recalc_map calls of the last commit
    pending, tx, hooks, queued, owed, flush_ids, hook_ids, flush_due

scoreVars == <<stat, played_rounds, winner_team_id, player_team_id, role_badge,
               points, breakdown, spc>>

normVars == <<w_raw, w_out, npc>>

segVars == <<freeze_end, round_end, freeze_ticks, re_df, seg_i, rounds, winners,
             seg_result, dpc, derr>>

teamVars == <<round_side_team, base_t, base_ct, base_idx, half_split, ot_start,
              team_score, team_side_score, half_score, tw_i, winner_team, tpc>>

clutchVars == <<tm, dr, wteam, alive_t, alive_ct, candidate, ev_i, stats, cpc>>

evVars == <<deaths_df, hurts_df, deaths_by_round, pass_i>>

aggVars == <<round_team, total_dmg, agg_i, agg_ev, apc, evVars>>

memVars == <<team_rows, mem_i, mpc>>

dbVars == <<game_map, db, db_commits, db_lock, work, seen, todo, wpc, ops>>

sigVars == <<pending, tx, hooks, queued, owed, flush_ids, hook_ids, flush_due>>

laterVars == <<memVars, dbVars, sigVars>>

vars == <<scoreVars, normVars, segVars, teamVars, clutchVars, aggVars, laterVars>>

None == <<>>
NoneStr == "None"

(***************************************************************************)
(* Exact rational arithmetic standing for Python's float arithmetic.       *)
(***************************************************************************)
Abs(n) == IF n < 0 THEN -n ELSE n

RECURSIVE GCD(_, _)
GCD(a, b) == IF b = 0 THEN a ELSE GCD(b, a % b)

Rat(n, d) ==
    LET g == GCD(Abs(n), Abs(d))
        s == IF d < 0 THEN -1 ELSE 1
    IN  <<(s * n) \div g, (s * d) \div g>>

RInt(n) == <<n, 1>>
RAdd(a, b) == Rat(a[1] * b[2] + b[1] * a[2], a[2] * b[2])
RSub(a, b) == Rat(a[1] * b[2] - b[1] * a[2], a[2] * b[2])
RMul(a, b) ==
    LET g1 == GCD(Abs(a[1]), b[2])
        g2 == GCD(Abs(b[1]), a[2])
    IN  Rat((a[1] \div g1) * (b[1] \div g2), (a[2] \div g2) * (b[2] \div g1))
RDiv(a, b) == RMul(a, Rat(b[2], b[1]))
RLt(a, b) == a[1] * b[2] < b[1] * a[2]
RLe(a, b) == a[1] * b[2] <= b[1] * a[2]
RGe(a, b) == RLe(b, a)
RMax(a, b) == IF RLt(a, b) THEN b ELSE a
RMin(a, b) == IF RLt(b, a) THEN b ELSE a

\* round(v, k) with P = 10^k: to the nearest multiple of 1/P, ties to even.
RoundDec(v, P) ==
    LET n == v[1] * P
        f == n \div v[2]
        r == n % v[2]
        q == IF 2 * r < v[2] THEN f
             ELSE IF 2 * r > v[2] THEN f + 1
             ELSE IF f % 2 = 0 THEN f ELSE f + 1
    IN  Rat(q, P)

Round2(v) == RoundDec(v, 100)
Round3(v) == RoundDec(v, 1000)

(***************************************************************************)
(* core/scoring.py                                                         *)
(***************************************************************************)
ScoringParams ==
    [KILL |-> Rat(1, 1), DEATH |-> Rat(-1, 2), ASSIST |-> Rat(1, 2),
     OPEN_KILL |-> Rat(3, 2), OPEN_DEATH |-> Rat(-1, 1),
     MK_3K |-> Rat(2, 1), MK_4K |-> Rat(5, 1), MK_5K |-> Rat(10, 1),
     CL_1V2 |-> Rat(3, 1), CL_1V3 |-> Rat(5, 1), CL_1V4 |-> Rat(8, 1),
     CL_1V5 |-> Rat(15, 1),
     ADR_BONUS_85 |-> Rat(3, 1), ADR_BONUS_70 |-> Rat(1, 1),
     ADR_PENALTY_50 |-> Rat(-1, 1),
     RATING_BONUS_120 |-> Rat(4, 1), RATING_BONUS_100 |-> Rat(2, 1),
     RATING_PENALTY_090 |-> Rat(-2, 1),
     ROUND_BASE |-> Rat(20, 1), ROUND_MIN |-> Rat(85, 100),
     ROUND_MAX |-> Rat(125, 100), TEAM_WIN_BONUS |-> Rat(2, 1),
     PTS_MIN |-> Rat(-20, 1), PTS_MAX |-> Rat(60, 1)]

clamp(v, lo, hi) == RMax(lo, RMin(hi, v))

\* A variant of adr_bonus whose steps exclude their own threshold.
adr_bonus_strict(adr, p) ==
    IF adr = None THEN RInt(0)
    ELSE IF RLt(RInt(85), adr) THEN p.ADR_BONUS_85
    ELSE IF RLt(RInt(70), adr) THEN p.ADR_BONUS_70
    ELSE IF RLt(adr, RInt(50)) THEN p.ADR_PENALTY_50
    ELSE RInt(0)

adr_bonus(adr, p) ==
    IF adr = None THEN RInt(0)
    ELSE IF RGe(adr, RInt(85)) THEN p.ADR_BONUS_85
    ELSE IF RGe(adr, RInt(70)) THEN p.ADR_BONUS_70
    ELSE IF RLt(adr, RInt(50)) THEN p.ADR_PENALTY_50
    ELSE RInt(0)

rating_bonus(rating2, p) ==
    IF rating2 = None THEN RInt(0)
    ELSE IF RGe(rating2, Rat(120, 100)) THEN p.RATING_BONUS_120
    ELSE IF RGe(rating2, Rat(100, 100)) THEN p.RATING_BONUS_100
    ELSE IF RLt(rating2, Rat(90, 100)) THEN p.RATING_PENALTY_090
    ELSE RInt(0)

(***************************************************************************)
(* core/roles.py                                                           *)
(***************************************************************************)
_copy(c) == [k \in DOMAIN c |-> c[k]]

\* int(s.get(key, 0) or 0) on a count field
_i(s, key) == s[key]

\* float(s.get(key, 0) or 0.0) on an optional float field
_f(s, key) == IF s[key] = None THEN RInt(0) ELSE s[key]

_role_delta(metric, target, k, lo, hi) == clamp(RMul(k, RSub(metric, target)), lo, hi)

_add_bonus(c2, delta) == [c2 EXCEPT !["bonus"] = RAdd(c2["bonus"], delta)]

ROLE_ROUND_BASE == Rat(20, 1)
ROLE_ROUND_MIN == Rat(85, 100)
ROLE_ROUND_MAX == Rat(125, 100)

_round_factor(s) ==
    LET pr == IF s["played_rounds"] = None THEN 0 ELSE s["played_rounds"][1]
    IN  IF pr <= 0 THEN RInt(1)
        ELSE clamp(RDiv(RInt(pr), ROLE_ROUND_BASE), ROLE_ROUND_MIN, ROLE_ROUND_MAX)

\* The effect record of a role that adds `delta` to the bonus pocket.
BonusEffect(by, delta, value, rf, before, after) ==
    [target |-> "bonus", kind |-> "add", amount |-> delta, by |-> by,
     value |-> value, round_factor |-> rf, before |-> before, after |-> after]

NoDetail == None

role_CLUTCH_MINISTER(c, s) ==
    LET c2 == _copy(c)
        rf == _round_factor(s)
        clutch_wins == _i(s, "cl_1v2") + _i(s, "cl_1v3") + _i(s, "cl_1v4") + _i(s, "cl_1v5")
        clutch_adj == RDiv(RInt(clutch_wins), rf)
        delta == _role_delta(clutch_adj, RInt(1), RInt(2), RInt(-3), RInt(6))
        c3 == _add_bonus(c2, delta)
    IN  [comp |-> c3, input |-> c, stat |-> s,
         effects |-> <<BonusEffect("clutch_wins_adj", delta, Round3(clutch_adj),
                                   Round3(rf), c2["bonus"], c3["bonus"])>>]

role_MULTI_FRAGGER(c, s) ==
    LET c2 == _copy(c)
        rf == _round_factor(s)
        weighted == _i(s, "mk_3k") + 2 * _i(s, "mk_4k") + 3 * _i(s, "mk_5k")
        weighted_adj == RDiv(RInt(weighted), rf)
        delta == _role_delta(weighted_adj, RInt(1), Rat(3, 2), RInt(-3), RInt(6))
        c3 == _add_bonus(c2, delta)
    IN  [comp |-> c3, input |-> c, stat |-> s,
         effects |-> <<BonusEffect("weighted_multikills_adj", delta, Round3(weighted_adj),
                                   Round3(rf), c2["bonus"], c3["bonus"])>>]

\* A variant of role_SUPPORT that adds the bonus to the map it was given.
role_SUPPORT_in_place(c, s) ==
    LET c2 == c
        rf == _round_factor(s)
        flashes == _i(s, "flash_assists")
        flashes_adj == RDiv(RInt(flashes), rf)
        delta == _role_delta(flashes_adj, RInt(2), Rat(8, 10), RInt(-3), RInt(3))
        c3 == _add_bonus(c2, delta)
    IN  [comp |-> c3, input |-> c3, stat |-> s,
         effects |-> <<BonusEffect("flash_assists_adj", delta, Round3(flashes_adj),
                                   Round3(rf), c2["bonus"], c3["bonus"])>>]

role_SUPPORT(c, s) ==
    LET c2 == _copy(c)
        rf == _round_factor(s)
        flashes == _i(s, "flash_assists")
        flashes_adj == RDiv(RInt(flashes), rf)
        delta == _role_delta(flashes_adj, RInt(2), Rat(8, 10), RInt(-3), RInt(3))
        c3 == _add_bonus(c2, delta)
    IN  [comp |-> c3, input |-> c, stat |-> s,
         effects |-> <<BonusEffect("flash_assists_adj", delta, Round3(flashes_adj),
                                   Round3(rf), c2["bonus"], c3["bonus"])>>]

role_HS_MACHINE(c, s) ==
    LET c2 == _copy(c)
        kills == _i(s, "kills")
        hs == _i(s, "hs")
        hs_pct == IF kills <= 0 THEN RInt(0) ELSE Rat(100 * hs, kills)
        delta == _role_delta(hs_pct, RInt(55), Rat(2, 10), RInt(-3), RInt(3))
        c3 == _add_bonus(c2, delta)
    IN  [comp |-> c3, input |-> c, stat |-> s,
         effects |-> <<BonusEffect("hs_pct", delta, Round2(hs_pct),
                                   NoDetail, c2["bonus"], c3["bonus"])>>]

role_STAR_PLAYER(c, s) ==
    LET c2 == _copy(c)
        rt == _f(s, "rating2")
        delta == _role_delta(rt, Rat(115, 100), RInt(10), RInt(-4), RInt(6))
        c3 == _add_bonus(c2, delta)
    IN  [comp |-> c3, input |-> c, stat |-> s,
         effects |-> <<BonusEffect("rating2", delta, rt,
                                   NoDetail, c2["bonus"], c3["bonus"])>>]

role_BAITER(c, s) ==
    LET c2 == _copy(c)
        rf == _round_factor(s)
        deaths == _i(s, "deaths")
        death_target == RMul(RInt(10), rf)
        metric == RSub(death_target, RInt(deaths))
        delta == _role_delta(metric, RInt(0), Rat(6, 10), RInt(-4), RInt(4))
        c3 == _add_bonus(c2, delta)
    IN  [comp |-> c3, input |-> c, stat |-> s,
         effects |-> <<BonusEffect("death_target_minus_deaths", delta, Round3(metric),
                                   Round3(rf), c2["bonus"], c3["bonus"])>>]

role_ENTRY_FRAGGER(c, s) ==
    LET c2 == _copy(c)
        rf == _round_factor(s)
        ok == _i(s, "opening_kills")
        od == _i(s, "opening_deaths")
        ok_adj == RDiv(RInt(ok), rf)
        delta == _role_delta(ok_adj, RInt(1), Rat(3, 2), RInt(-3), RInt(6))
        c3 == _add_bonus(c2, delta)
        success == (ok >= 1) /\ (ok >= od)
        mult == IF success THEN Rat(80, 100) ELSE Rat(120, 100)
        c4 == [c3 EXCEPT !["opening_neg"] = RMul(c3["opening_neg"], mult)]
    IN  [comp |-> c4, input |-> c, stat |-> s,
         effects |-> <<BonusEffect("opening_kills_adj", delta, Round3(ok_adj),
                                   Round3(rf), c2["bonus"], c3["bonus"]),
                       [target |-> "opening_neg", kind |-> "mult", amount |-> mult,
                        by |-> "opening_deaths", value |-> RInt(od),
                        round_factor |-> NoDetail,
                        before |-> c3["opening_neg"], after |-> c4["opening_neg"]]>>]

role_GRENADER(c, s) ==
    LET c2 == _copy(c)
        rf == _round_factor(s)
        ud == _f(s, "utility_dmg")
        ud_adj == RDiv(ud, rf)
        delta == _role_delta(ud_adj, RInt(35), Rat(6, 100), RInt(-3), RInt(3))
        c3 == _add_bonus(c2, delta)
    IN  [comp |-> c3, input |-> c, stat |-> s,
         effects |-> <<BonusEffect("utility_dmg_adj", delta, Round3(ud_adj),
                                   Round3(rf), c2["bonus"], c3["bonus"])>>]

ROLES == {"CLUTCH_MINISTER", "BAITER", "SUPPORT", "HS_MACHINE", "MULTI_FRAGGER",
          "STAR_PLAYER", "ENTRY_FRAGGER", "GRENADER"}

RoleFn(code, c, s) ==
    CASE code = "CLUTCH_MINISTER" -> role_CLUTCH_MINISTER(c, s)
      [] code = "BAITER" -> role_BAITER(c, s)
      [] code = "SUPPORT" -> role_SUPPORT(c, s)
      [] code = "HS_MACHINE" -> role_HS_MACHINE(c, s)
      [] code = "MULTI_FRAGGER" -> role_MULTI_FRAGGER(c, s)
      [] code = "STAR_PLAYER" -> role_STAR_PLAYER(c, s)
      [] code = "ENTRY_FRAGGER" -> role_ENTRY_FRAGGER(c, s)
      [] code = "GRENADER" -> role_GRENADER(c, s)

\* lines 301-303: the result r of the role function with the meta record
role_applied(role_code, r) ==
    [comp |-> r.comp, input |-> r.input, stat |-> r.stat,
     meta |-> [role |-> role_code, effects |-> r.effects, warning |-> NoneStr]]

\* A variant of apply_role that treats an unregistered code like no role.
apply_role_no_warning(role_code, comp, s) ==
    IF role_code \notin ROLES
    THEN [comp |-> comp, input |-> comp, stat |-> s,
          meta |-> [role |-> role_code, effects |-> <<>>, warning |-> NoneStr]]
    ELSE role_applied(role_code, RoleFn(role_code, comp, s))

apply_role(role_code, comp, s) ==
    IF role_code = NoneStr \/ role_code = ""
    THEN [comp |-> comp, input |-> comp, stat |-> s,
          meta |-> [role |-> role_code, effects |-> <<>>, warning |-> NoneStr]]
    ELSE IF role_code \notin ROLES
    THEN [comp |-> comp, input |-> comp, stat |-> s,
          meta |-> [role |-> role_code, effects |-> <<>>, warning |-> "unknown_role"]]
    ELSE role_applied(role_code, RoleFn(role_code, comp, s))

(***************************************************************************)
(* scoring.calc_points                                                     *)
(***************************************************************************)
ComponentNames == {"kills", "assists", "deaths", "opening_pos", "opening_neg",
                   "multi", "clutch", "adr_rt", "bonus"}

components_before(s, p) ==
    [kills |-> RMul(RInt(s["kills"]), p.KILL),
     assists |-> RMul(RInt(s["assists"]), p.ASSIST),
     deaths |-> RMul(RInt(s["deaths"]), p.DEATH),
     opening_pos |-> RMul(RInt(s["opening_kills"]), p.OPEN_KILL),
     opening_neg |-> RMul(RInt(s["opening_deaths"]), p.OPEN_DEATH),
     multi |-> RAdd(RAdd(RMul(RInt(s["mk_3k"]), p.MK_3K),
                         RMul(RInt(s["mk_4k"]), p.MK_4K)),
                    RMul(RInt(s["mk_5k"]), p.MK_5K)),
     clutch |-> RAdd(RAdd(RAdd(RMul(RInt(s["cl_1v2"]), p.CL_1V2),
                               RMul(RInt(s["cl_1v3"]), p.CL_1V3)),
                          RMul(RInt(s["cl_1v4"]), p.CL_1V4)),
                     RMul(RInt(s["cl_1v5"]), p.CL_1V5)),
     adr_rt |-> RAdd(adr_bonus(s["adr"], p), rating_bonus(s["rating2"], p)),
     bonus |-> RInt(0)]

RECURSIVE SumValues(_, _)
SumValues(c, keys) ==
    IF keys = {} THEN RInt(0)
    ELSE LET k == CHOOSE x \in keys : TRUE
         IN  RAdd(c[k], SumValues(c, keys \ {k}))

\* A variant of round_factor_of that forgets the clamp.
round_factor_unclamped(pr, p) ==
    LET n == IF pr = None \/ pr = <<0>> THEN p.ROUND_BASE ELSE RInt(pr[1])
    IN  RDiv(n, p.ROUND_BASE)

\* A variant of round_factor_of that falls back to ROUND_BASE for None only.
round_factor_none_fallback(pr, p) ==
    LET n == IF pr = None THEN p.ROUND_BASE ELSE RInt(pr[1])
    IN  clamp(RDiv(n, p.ROUND_BASE), p.ROUND_MIN, p.ROUND_MAX)

\* rf_raw = (played_rounds or p.ROUND_BASE) / p.ROUND_BASE, then the clamp
round_factor_of(pr, p) ==
    LET n == IF pr = None \/ pr = <<0>> THEN p.ROUND_BASE ELSE RInt(pr[1])
    IN  clamp(RDiv(n, p.ROUND_BASE), p.ROUND_MIN, p.ROUND_MAX)

\* A variant of team_bonus_of without the equality test.
team_bonus_any_winner(w, t, p) ==
    IF w # None /\ w # <<0>> THEN p.TEAM_WIN_BONUS ELSE RInt(0)

\* winner_team_id and winner_team_id == player_team_id
team_bonus_of(w, t, p) ==
    IF w # None /\ w # <<0>> /\ w = t THEN p.TEAM_WIN_BONUS ELSE RInt(0)

\* A variant of final_clamp that clamps from above only.
final_clamp_upper_only(raw, p) == RMin(p.PTS_MAX, raw)

final_clamp(raw, p) == clamp(raw, p.PTS_MIN, p.PTS_MAX)

\* lines 118-126: the rounded result
calc_points_return(ar, final, round_factor, team_bonus) ==
    [points |-> Round2(final),
     stat |-> ar.stat,
     breakdown |->
        [components_before |-> [k \in DOMAIN ar.input |-> Round3(ar.input[k])],
         components_after_role |-> [k \in DOMAIN ar.comp |-> Round3(ar.comp[k])],
         role |-> ar.meta,
         round_factor |-> Round3(round_factor),
         team_win_bonus |-> team_bonus,
         final |-> Round3(final)]]

\* lines 106-126, given the result ar of apply_role
calc_points_result(ar, pr, w, t, p) ==
    LET comp_after == ar.comp
        base_after_roles == SumValues(comp_after, DOMAIN comp_after)
        round_factor == round_factor_of(pr, p)
        team_bonus == team_bonus_of(w, t, p)
        raw == RAdd(RMul(base_after_roles, round_factor), team_bonus)
    IN  calc_points_return(ar, final_clamp(raw, p), round_factor, team_bonus)

calc_points(s, pr, w, t, role, p) ==
    calc_points_result(apply_role(role, components_before(s, p), s), pr, w, t, p)

(***************************************************************************)
(* core/demo_parser.py: _normalize_winner                                  *)
(*                                                                         *)
(* A raw winner value is a record [kind, val]:                             *)
(*   "none"   None                      val = <<>>                         *)
(*   "nan"    float('nan')              val = <<>>                         *)
(*   "inf"    float('inf')              val = <<>>                         *)
(*   "str"    a Python str              val = the sequence of characters   *)
(*   "int"    a Python int              val = <<n>>                        *)
(*   "float"  a finite Python float     val = <<n, d>>, the value n/d      *)
(*   "obj"    an object int() rejects   val = <<>>                         *)
(* An optional side is None or Some(T_TEAM) / Some(CT_TEAM).               *)
(***************************************************************************)
T_TEAM == 2
CT_TEAM == 3

Some(x) == <<x>>

WNone == [kind |-> "none", val |-> <<>>]
WNaN == [kind |-> "nan", val |-> <<>>]
WInf == [kind |-> "inf", val |-> <<>>]
WObj == [kind |-> "obj", val |-> <<>>]
WStr(chars) == [kind |-> "str", val |-> chars]
WInt(n) == [kind |-> "int", val |-> <<n>>]
WFloat(n, d) == [kind |-> "float", val |-> Rat(n, d)]

\* The characters of the explored strings: letters, a blank, ASCII digits
\* and SUPERSCRIPT TWO (U+00B2), for which str.isdigit() is True although
\* int() rejects it.
Sup2 == "sup2"
AsciiDigits == <<"0", "1", "2", "3", "4", "5", "6", "7", "8", "9">>
Whitespace == {" "}

\* str.upper(), character by character
upper_char(ch) ==
    CASE ch = "t" -> "T"
      [] ch = "c" -> "C"
      [] ch = "x" -> "X"
      [] OTHER -> ch

str_upper(s) == [i \in 1..Len(s) |-> upper_char(s[i])]

\* str.strip(): leading and trailing whitespace removed
RECURSIVE str_lstrip(_)
str_lstrip(s) ==
    IF s # <<>> /\ Head(s) \in Whitespace THEN str_lstrip(Tail(s)) ELSE s

RECURSIVE str_rstrip(_)
str_rstrip(s) ==
    IF s # <<>> /\ s[Len(s)] \in Whitespace
    THEN str_rstrip(SubSeq(s, 1, Len(s) - 1)) ELSE s

str_strip(s) == str_rstrip(str_lstrip(s))

IsAsciiDigit(ch) == \E i \in 1..10 : AsciiDigits[i] = ch
DigitValue(ch) == (CHOOSE i \in 1..10 : AsciiDigits[i] = ch) - 1

\* str.isdigit(): non-empty and every character has the Unicode digit property
str_isdigit(s) ==
    /\ s # <<>>
    /\ \A i \in 1..Len(s) : IsAsciiDigit(s[i]) \/ s[i] = Sup2

RECURSIVE DecimalValue(_)
DecimalValue(s) ==
    IF s = <<>> THEN 0
    ELSE 10 * DecimalValue(SubSeq(s, 1, Len(s) - 1)) + DigitValue(s[Len(s)])

\* int(s) on a string for which isdigit() holds: a ValueError unless every
\* character is a decimal digit.
int_of_str(s) ==
    IF \A i \in 1..Len(s) : IsAsciiDigit(s[i])
    THEN [raised |-> FALSE, value |-> Some(DecimalValue(s))]
    ELSE [raised |-> TRUE, value |-> None]

\* int(w) on a non-string: truncation toward zero for a finite float;
\* OverflowError for an infinity, TypeError for an unparseable object.
int_of_num(w) ==
    CASE w.kind = "int" -> [raised |-> FALSE, value |-> Some(w.val[1])]
      [] w.kind = "float" ->
            [raised |-> FALSE,
             value |-> Some(IF w.val[1] >= 0 THEN w.val[1] \div w.val[2]
                            ELSE -((-w.val[1]) \div w.val[2]))]
      [] OTHER -> [raised |-> TRUE, value |-> None]

\* the mapping of an integer code shared by the string and the numeric branch
side_of_code(n) ==
    IF n \in {T_TEAM, CT_TEAM} THEN Some(n)
    ELSE IF n = 0 THEN Some(T_TEAM)
    ELSE IF n = 1 THEN Some(CT_TEAM)
    ELSE None

Returned(v) == [raised |-> FALSE, value |-> v]
Raised == [raised |-> TRUE, value |-> None]

_normalize_winner(w) ==
    IF w.kind \in {"none", "nan"} THEN Returned(None)
    ELSE IF w.kind = "str" THEN
        LET s == str_upper(str_strip(w.val))
        IN  IF s = <<"T">> THEN Returned(Some(T_TEAM))
            ELSE IF s = <<"C", "T">> THEN Returned(Some(CT_TEAM))
            ELSE IF str_isdigit(s) THEN
                LET n == int_of_str(s)
                IN  IF n.raised THEN Raised     \* the ValueError is not caught
                    ELSE Returned(side_of_code(n.value[1]))
            ELSE Returned(None)
    ELSE
        LET n == int_of_num(w)
        IN  IF n.raised THEN Returned(None)     \* except Exception: return None
            ELSE Returned(side_of_code(n.value[1]))


(***************************************************************************)
(* core/demo_parser.py: extract_map_stats_from_demo, round segmentation    *)
(*                                                                         *)
(* An event table (the result of parse_event) is [missing, rows]: missing  *)
(* stands for None, rows is the sequence of its rows in file order.  A     *)
(* round_freeze_end row is its tick; a round_end row is [tick, winner].    *)
(***************************************************************************)
NoTable == [missing |-> TRUE, rows |-> <<>>]
Table(rows) == [missing |-> FALSE, rows |-> rows]

SeqRange(s) == { s[i] : i \in 1..Len(s) }

\* A variant of EventsMissing that tests for None only, not for emptiness.
EventsMissing_none_only(fe, re) == fe.missing \/ re.missing

\* freeze_end is None or round_end is None or len(..) == 0 or len(..) == 0
EventsMissing(fe, re) ==
    fe.missing \/ re.missing \/ Len(fe.rows) = 0 \/ Len(re.rows) = 0

SetMin(S) == CHOOSE x \in S : \A y \in S : x <= y

\* sorted(set(ticks))
RECURSIVE SortedSeqOf(_)
SortedSeqOf(S) ==
    IF S = {} THEN <<>>
    ELSE LET m == SetMin(S) IN <<m>> \o SortedSeqOf(S \ {m})

\* A variant of sorted_set that removes the duplicates and keeps file order.
RECURSIVE sorted_set_file_order(_)
sorted_set_file_order(ticks) ==
    IF ticks = <<>> THEN <<>>
    ELSE LET init == SubSeq(ticks, 1, Len(ticks) - 1)
             last == ticks[Len(ticks)]
         IN  IF last \in SeqRange(init) THEN sorted_set_file_order(init)
             ELSE sorted_set_file_order(init) \o <<last>>

sorted_set(ticks) == SortedSeqOf(SeqRange(ticks))

\* re_df.sort_values("tick"): the rows in non-decreasing tick order.  The
\* default sort is not stable, so rows of equal tick may come in any order.
sort_values_tick(rows) ==
    LET n == Len(rows)
        Perm == { f \in [1..n -> 1..n] : \A i, j \in 1..n : f[i] = f[j] => i = j }
    IN  { [i \in 1..n |-> rows[f[i]]] : f \in
            { g \in Perm : \A i \in 1..n, j \in 1..n :
                              i < j => rows[g[i]].tick <= rows[g[j]].tick } }

\* A variant of bisect_right that is bisect.bisect_left.
bisect_left(a, x) == Cardinality({ i \in 1..Len(a) : a[i] < x })

\* bisect.bisect_right(a, x) on a sorted list: the 0-based insertion point
\* after every element <= x
bisect_right(a, x) == Cardinality({ i \in 1..Len(a) : a[i] <= x })

\* re_df[re_df["tick"] == e].tail(1)["winner"].iloc[0]
winner_at(df, e) ==
    LET idx == { i \in 1..Len(df) : df[i].tick = e }
    IN  IF idx = {} THEN WNone
        ELSE df[CHOOSE i \in idx : \A k \in idx : k <= i].winner

CountOf(ws, side) == Cardinality({ i \in 1..Len(ws) : ws[i] = Some(side) })

\* lines 143-153: n_rounds, the T / CT tallies and the side-level winner
side_summary(rs, ws) ==
    LET t_rounds == CountOf(ws, T_TEAM)
        ct_rounds == CountOf(ws, CT_TEAM)
    IN  [n_rounds |-> Len(rs), t_rounds |-> t_rounds, ct_rounds |-> ct_rounds,
         winner |-> IF t_rounds > ct_rounds THEN "T"
                    ELSE IF ct_rounds > t_rounds THEN "CT"
                    ELSE "DRAW"]

NoResult == [n_rounds |-> -1]


(***************************************************************************)
(* core/demo_parser.py: extract_map_stats_from_demo, team-based score      *)
(*                                                                         *)
(* round_side_team is the sequence, per round, of [t, ct]: the clan name   *)
(* resolved for the T and the CT side, or "None".  Round indices are       *)
(* 0-based as in the source; round i is element i + 1 of a sequence.       *)
(* A dict with int values is a function whose domain is its key set.       *)
(***************************************************************************)
HALF_DEFAULT == 12

\* round_side_team[i].get(side)
side_name(rst, i, side) == IF side = T_TEAM THEN rst[i + 1].t ELSE rst[i + 1].ct

\* truthiness of an Optional[str]
Truthy(nm) == nm # NoneStr /\ nm # ""

MinOrNone(S) == IF S = {} THEN None ELSE Some(SetMin(S))

SetMax(S) == CHOOSE x \in S : \A y \in S : y <= x

MaxOrNone(S) == IF S = {} THEN None ELSE Some(SetMax(S))

\* lines 371-379: the first round where both sides carry a name
base_assignment(rst, n) ==
    LET hit == MinOrNone({ i \in 0..(n - 1) :
                             Truthy(side_name(rst, i, T_TEAM))
                             /\ Truthy(side_name(rst, i, CT_TEAM)) })
    IN  IF hit = None
        THEN [base_t |-> NoneStr, base_ct |-> NoneStr, base_idx |-> None]
        ELSE [base_t |-> side_name(rst, hit[1], T_TEAM),
              base_ct |-> side_name(rst, hit[1], CT_TEAM),
              base_idx |-> hit]

\* A variant of half_split_of that takes the first later round whose T side
\* no longer carries the base T name as the start of the second half.
half_split_any_change(rst, n, b) ==
    LET fallback == IF n > HALF_DEFAULT THEN HALF_DEFAULT ELSE n
    IN  IF Truthy(b.base_t) /\ Truthy(b.base_ct) /\ b.base_idx # None
        THEN LET hit == MinOrNone({ i \in (b.base_idx[1] + 1)..(n - 1) :
                                      side_name(rst, i, T_TEAM) # b.base_t })
             IN  IF hit = None THEN fallback ELSE hit[1]
        ELSE fallback

\* lines 381-388: the half boundary, by side swap or by the fallback
half_split_of(rst, n, b) ==
    LET fallback == IF n > HALF_DEFAULT THEN HALF_DEFAULT ELSE n
    IN  IF Truthy(b.base_t) /\ Truthy(b.base_ct) /\ b.base_idx # None
        THEN LET hit == MinOrNone({ i \in (b.base_idx[1] + 1)..(n - 1) :
                                      /\ Truthy(side_name(rst, i, T_TEAM))
                                      /\ Truthy(side_name(rst, i, CT_TEAM))
                                      /\ side_name(rst, i, T_TEAM) = b.base_ct
                                      /\ side_name(rst, i, CT_TEAM) = b.base_t })
             IN  IF hit = None THEN fallback ELSE hit[1]
        ELSE fallback

\* lines 391-398: the start of overtime, by the return to the base sides
ot_start_of(rst, n, b, hs) ==
    IF Truthy(b.base_t) /\ Truthy(b.base_ct)
    THEN LET hit == MinOrNone({ i \in (hs + 1)..(n - 1) :
                                  /\ Truthy(side_name(rst, i, T_TEAM))
                                  /\ Truthy(side_name(rst, i, CT_TEAM))
                                  /\ side_name(rst, i, T_TEAM) = b.base_t
                                  /\ side_name(rst, i, CT_TEAM) = b.base_ct })
         IN  IF hit = None THEN n ELSE hit[1]
    ELSE n

\* d[k] of a defaultdict(int), without creating the key
Get(d, k) == IF k \in DOMAIN d THEN d[k] ELSE 0

\* d[k] = v on a dict
Put(d, k, v) == [x \in DOMAIN d \cup {k} |-> IF x = k THEN v ELSE d[x]]

\* d[k] += 1 on a defaultdict(int)
Inc(d, k) == IF k \in DOMAIN d THEN [d EXCEPT ![k] = @ + 1] ELSE d @@ (k :> 1)

EmptyDict == <<>>

SideKey(wside) == IF wside = T_TEAM THEN "T" ELSE "CT"

\* lines 410-415
bucket_of(i, hs, ot) ==
    IF i < hs THEN "first_half" ELSE IF i < ot THEN "second_half" ELSE "overtime"

\* team_side_score[nm][key] += 1 on a defaultdict(lambda: {"T": 0, "CT": 0})
IncSide(d, nm, key) ==
    LET cur == IF nm \in DOMAIN d THEN d[nm] ELSE [T |-> 0, CT |-> 0]
    IN  (nm :> [cur EXCEPT ![key] = @ + 1]) @@ d

\* A variant of count_round that forgets the final else branch: a round at or
\* after the overtime start reaches no bucket.
count_round_no_overtime(tally, i, w, rst, hs, ot) ==
    IF w = None \/ ~Truthy(side_name(rst, i, w[1])) THEN tally
    ELSE LET nm == side_name(rst, i, w[1])
         IN  [team_score |-> Inc(tally.team_score, nm),
              team_side_score |-> IncSide(tally.team_side_score, nm, SideKey(w[1])),
              half_score |->
                  IF i < ot
                  THEN [tally.half_score EXCEPT ![bucket_of(i, hs, ot)] = Inc(@, nm)]
                  ELSE tally.half_score]

\* lines 400-415: the body of `for i, wside in enumerate(winners)`
count_round(tally, i, w, rst, hs, ot) ==
    IF w = None \/ ~Truthy(side_name(rst, i, w[1])) THEN tally
    ELSE LET nm == side_name(rst, i, w[1])
         IN  [team_score |-> Inc(tally.team_score, nm),
              team_side_score |-> IncSide(tally.team_side_score, nm, SideKey(w[1])),
              half_score |->
                  [tally.half_score EXCEPT ![bucket_of(i, hs, ot)] = Inc(@, nm)]]

DictMax(d) == CHOOSE m \in { d[k] : k \in DOMAIN d } : \A k \in DOMAIN d : d[k] <= m

\* A variant of winner_team_of that returns the first top team without
\* testing for a tie.
winner_team_first_top(ts) ==
    IF DOMAIN ts = {} THEN NoneStr
    ELSE CHOOSE k \in DOMAIN ts : ts[k] = DictMax(ts)

\* lines 417-421
winner_team_of(ts) ==
    IF DOMAIN ts = {} THEN NoneStr
    ELSE LET mx == DictMax(ts)
             tops == { k \in DOMAIN ts : ts[k] = mx }
         IN  IF Cardinality(tops) = 1 THEN CHOOSE k \in tops : TRUE ELSE "DRAW"

EmptyTally ==
    [team_score |-> EmptyDict,
     team_side_score |-> EmptyDict,
     half_score |-> [first_half |-> EmptyDict, second_half |-> EmptyDict,
                     overtime |-> EmptyDict]]


(***************************************************************************)
(* core/demo_parser.py: extract_map_stats_from_demo, clutch detection      *)
(*                                                                         *)
(* A steamid is modelled by a number, the empty string by 0.  tm maps the  *)
(* steamids sampled at the round start to their team number (the player    *)
(* name of the pair is not used here); dr is the round's death events in   *)
(* tick order, each reduced to its user_steamid.                           *)
(***************************************************************************)
EmptySid == 0

\* {sid for sid, (_, t) in tm.items() if t == side}
members(tmf, side) == { sid \in DOMAIN tmf : tmf[sid] = side }

NoCandidate == [s \in {T_TEAM, CT_TEAM} |-> None]

Last(S) == CHOOSE sid \in S : TRUE

\* A variant of candidate_after without the `is None` tests: a later event
\* overwrites the recorded opponent count.
candidate_after_overwrite(cand, at, act) ==
    LET c1 == IF Cardinality(at) = 1 /\ Cardinality(act) \in 2..5
              THEN [cand EXCEPT ![T_TEAM] = <<Last(at), Cardinality(act)>>]
              ELSE cand
    IN  IF Cardinality(act) = 1 /\ Cardinality(at) \in 2..5
        THEN [c1 EXCEPT ![CT_TEAM] = <<Last(act), Cardinality(at)>>]
        ELSE c1

\* lines 329-339: the two candidate tests after a death was applied
candidate_after(cand, at, act) ==
    LET c1 == IF cand[T_TEAM] = None /\ Cardinality(at) = 1
                 /\ Cardinality(act) \in 2..5
              THEN [cand EXCEPT ![T_TEAM] = <<Last(at), Cardinality(act)>>]
              ELSE cand
    IN  IF c1[CT_TEAM] = None /\ Cardinality(act) = 1
           /\ Cardinality(at) \in 2..5
        THEN [c1 EXCEPT ![CT_TEAM] = <<Last(act), Cardinality(at)>>]
        ELSE c1

\* A variant of clutch_credit without the `sid_last in alive_set` test.
clutch_credit_no_alive_test(cand, w, at, act) ==
    IF w # None /\ cand[w[1]] # None THEN cand[w[1]] ELSE None

\* lines 341-345: the pair (sid_last, x) that is credited, or None
clutch_credit(cand, w, at, act) ==
    IF w # None /\ cand[w[1]] # None
    THEN LET alive_set == IF w[1] = T_TEAM THEN at ELSE act
         IN  IF cand[w[1]][1] \in alive_set THEN cand[w[1]] ELSE None
    ELSE None

ClutchTiers == {"cl_1v2", "cl_1v3", "cl_1v4", "cl_1v5"}

NoClutch == [cl_1v2 |-> 0, cl_1v3 |-> 0, cl_1v4 |-> 0, cl_1v5 |-> 0]

\* lines 346-354: ps.cl_1v{x} += 1
add_clutch(ps, x) ==
    IF x = 2 THEN [ps EXCEPT !.cl_1v2 = @ + 1]
    ELSE IF x = 3 THEN [ps EXCEPT !.cl_1v3 = @ + 1]
    ELSE IF x = 4 THEN [ps EXCEPT !.cl_1v4 = @ + 1]
    ELSE IF x = 5 THEN [ps EXCEPT !.cl_1v5 = @ + 1]
    ELSE ps


(***************************************************************************)
(* core/demo_parser.py: extract_map_stats_from_demo, the player records    *)
(*                                                                         *)
(* stats maps a steamid to the PlayerMapStatsOut fields that the passes    *)
(* over round_team, player_death and player_hurt write, and to adr.        *)
(***************************************************************************)
\* PlayerMapStatsOut(name, steamid) with the defaults of lines 38-62
NewPlayer ==
    [rounds_played |-> 0, kills |-> 0, deaths |-> 0, assists |-> 0, hs |-> 0,
     flash_assists |-> 0, utility_dmg |-> RInt(0), adr |-> RInt(0),
     opening_kills |-> 0, opening_deaths |-> 0,
     mk_3k |-> 0, mk_4k |-> 0, mk_5k |-> 0,
     cl_1v2 |-> 0, cl_1v3 |-> 0, cl_1v4 |-> 0, cl_1v5 |-> 0]

\* lines 221-227: the stats dict after get_player(sid)
get_player(st, sid) == IF sid \in DOMAIN st THEN st ELSE (sid :> NewPlayer) @@ st

\* A variant of tick_to_round that returns the first round holding the tick.
tick_to_round_first(rs, tick) ==
    MinOrNone({ i \in 0..(Len(rs) - 1) : rs[i + 1][1] <= tick /\ tick <= rs[i + 1][2] })

\* lines 212-216: the 0-based round of a tick, or None
tick_to_round(rs, tick) ==
    LET round_starts == [k \in 1..Len(rs) |-> rs[k][1]]
        i == bisect_right(round_starts, tick) - 1
    IN  IF i < 0 THEN None
        ELSE IF tick <= rs[i + 1][2] THEN Some(i) ELSE None

RECURSIVE count_members(_, _)
\* lines 229-231 for one round: rounds_played += 1 for every member
count_members(st, sids) ==
    IF sids = {} THEN st
    ELSE LET sid == CHOOSE x \in sids : TRUE
             st1 == get_player(st, sid)
         IN  count_members([st1 EXCEPT ![sid].rounds_played = @ + 1], sids \ {sid})

\* str.lower() on the names that occur in the event rows
lower(name) ==
    CASE name = "World" -> "world"
      [] name = "WORLD" -> "world"
      [] name = "Null" -> "null"
      [] name = "NULL" -> "null"
      [] OTHER -> name

NotWorld(name) == lower(name) \notin {"world", "null"}

\* lines 239-262: one player_death row
record_death(st, rs, r) ==
    IF tick_to_round(rs, r.tick) = None THEN st
    ELSE LET s1 == IF r.user_steamid # EmptySid
                   THEN [get_player(st, r.user_steamid)
                           EXCEPT ![r.user_steamid].deaths = @ + 1]
                   ELSE st
             s2 == IF r.attacker_steamid # EmptySid /\ NotWorld(r.attacker_name)
                   THEN [get_player(s1, r.attacker_steamid)
                           EXCEPT ![r.attacker_steamid].kills = @ + 1,
                                  ![r.attacker_steamid].hs =
                                      IF r.headshot THEN @ + 1 ELSE @]
                   ELSE s1
         IN  IF r.assister_steamid # EmptySid /\ NotWorld(r.assister_name)
             THEN [get_player(s2, r.assister_steamid)
                     EXCEPT ![r.assister_steamid].assists = @ + 1,
                            ![r.assister_steamid].flash_assists =
                                IF r.assistedflash THEN @ + 1 ELSE @]
             ELSE s2

\* lines 265-287: one player_hurt row; the result is [stats, total_dmg]
record_hurt(st, td, rs, rt, r) ==
    LET ridx == tick_to_round(rs, r.tick)
        same == [stats |-> st, total_dmg |-> td]
    IN  IF ridx = None THEN same
        ELSE IF r.attacker_steamid = EmptySid \/ r.user_steamid = EmptySid THEN same
        ELSE LET members_r == rt[ridx[1] + 1]
             IN  IF r.attacker_steamid \notin DOMAIN members_r
                    \/ r.user_steamid \notin DOMAIN members_r
                    \/ members_r[r.attacker_steamid] = members_r[r.user_steamid]
                 THEN same
                 ELSE IF r.dmg_health <= 0 THEN same
                 ELSE [stats |->
                          IF r.utility
                          THEN [get_player(st, r.attacker_steamid)
                                  EXCEPT ![r.attacker_steamid].utility_dmg =
                                             RAdd(@, RInt(r.dmg_health))]
                          ELSE st,
                       total_dmg |->
                          IF r.attacker_steamid \in DOMAIN td
                          THEN [td EXCEPT ![r.attacker_steamid] =
                                              RAdd(@, RInt(r.dmg_health))]
                          ELSE (r.attacker_steamid :> RInt(r.dmg_health)) @@ td]

\* A variant of adr_divisor without the fallback to the round count.
adr_divisor_own_rounds(rp, n) == rp

\* line 357: rp = ps.rounds_played if ps.rounds_played else n_rounds
adr_divisor(rp, n) == IF rp # 0 THEN rp ELSE n

\* total_dmg.get(sid, 0.0)
dmg_of(td, sid) == IF sid \in DOMAIN td THEN td[sid] ELSE RInt(0)

\* line 245: deaths_by_round[ridx].append(r) for an attributed row
append_death(dbr, rs, r) ==
    LET ridx == tick_to_round(rs, r.tick)
    IN  IF ridx = None THEN dbr
        ELSE [dbr EXCEPT ![ridx[1] + 1] = Append(@, r)]

RemoveAt(s, i) == [j \in 1..(Len(s) - 1) |-> IF j < i THEN s[j] ELSE s[j + 1]]

RECURSIVE sorted_by_tick(_)
\* line 290: sorted(rows, key=tick); rows of one tick keep their order
sorted_by_tick(rows) ==
    IF rows = <<>> THEN <<>>
    ELSE LET m == SetMin({ rows[j].tick : j \in 1..Len(rows) })
             i == SetMin({ j \in 1..Len(rows) : rows[j].tick = m })
         IN  <<rows[i]>> \o sorted_by_tick(RemoveAt(rows, i))

\* A variant of opening_duel that credits every death event of the round.
RECURSIVE opening_duel_every_event(_, _)
opening_duel_every_event(st, drs) ==
    IF drs = <<>> THEN st
    ELSE LET first == drs[1]
             s1 == IF first.user_steamid # EmptySid
                   THEN [get_player(st, first.user_steamid)
                           EXCEPT ![first.user_steamid].opening_deaths = @ + 1]
                   ELSE st
             s2 == IF first.attacker_steamid # EmptySid
                   THEN [get_player(s1, first.attacker_steamid)
                           EXCEPT ![first.attacker_steamid].opening_kills = @ + 1]
                   ELSE s1
         IN  opening_duel_every_event(s2, Tail(drs))

\* lines 292-297: the opening credits of the first death event of dr
opening_duel(st, drs) ==
    IF drs = <<>> THEN st
    ELSE LET first == drs[1]
             s1 == IF first.user_steamid # EmptySid
                   THEN [get_player(st, first.user_steamid)
                           EXCEPT ![first.user_steamid].opening_deaths = @ + 1]
                   ELSE st
         IN  IF first.attacker_steamid # EmptySid
             THEN [get_player(s1, first.attacker_steamid)
                     EXCEPT ![first.attacker_steamid].opening_kills = @ + 1]
             ELSE s1

\* lines 299-303: kills_per_player of one round
kills_per_player(drs) ==
    [sid \in { drs[j].attacker_steamid : j \in 1..Len(drs) } \ {EmptySid} |->
        Cardinality({ j \in 1..Len(drs) : drs[j].attacker_steamid = sid })]

RECURSIVE multi_kills(_, _, _)
\* lines 305-312: the multi-kill tier of every player of kills_per_player
multi_kills(st, kpp, sids) ==
    IF sids = {} THEN st
    ELSE LET sid == CHOOSE x \in sids : TRUE
             k == kpp[sid]
             s1 == get_player(st, sid)
             s2 == IF k = 3 THEN [s1 EXCEPT ![sid].mk_3k = @ + 1]
                   ELSE IF k = 4 THEN [s1 EXCEPT ![sid].mk_4k = @ + 1]
                   ELSE IF k >= 5 THEN [s1 EXCEPT ![sid].mk_5k = @ + 1]
                   ELSE s1
         IN  multi_kills(s2, kpp, sids \ {sid})

RECURSIVE clutch_scan(_, _, _, _, _)
\* lines 319-339: `for ev in dr` from the alive sets at, act and the candidates
clutch_scan(tmf, drs, at, act, cand) ==
    IF drs = <<>> THEN [alive_t |-> at, alive_ct |-> act, candidate |-> cand]
    ELSE LET v_sid == drs[1].user_steamid
         IN  IF v_sid = EmptySid \/ v_sid \notin DOMAIN tmf
             THEN clutch_scan(tmf, Tail(drs), at, act, cand)
             ELSE LET at1 == IF tmf[v_sid] = T_TEAM THEN at \ {v_sid} ELSE at
                      act1 == IF tmf[v_sid] = T_TEAM THEN act ELSE act \ {v_sid}
                  IN  clutch_scan(tmf, Tail(drs), at1, act1,
                                  candidate_after(cand, at1, act1))

\* lines 341-354, given the outcome sc of the scan
clutch_win(st, sc, w) ==
    LET c == clutch_credit(sc.candidate, w, sc.alive_t, sc.alive_ct)
    IN  IF c = None THEN st
        ELSE [get_player(st, c[1]) EXCEPT ![c[1]] = add_clutch(@, c[2])]

\* lines 292-354 on the sorted death rows dr of the round
per_round_credits(st, drs, tmf, w) ==
    LET s1 == opening_duel(st, drs)
        kpp == kills_per_player(drs)
        s2 == multi_kills(s1, kpp, DOMAIN kpp)
    IN  clutch_win(s2, clutch_scan(tmf, drs, members(tmf, T_TEAM),
                                   members(tmf, CT_TEAM), NoCandidate), w)

\* lines 289-354: one iteration of `for ridx in range(n_rounds)` for the
\* death rows rows of the round, its members tmf and its winner w
per_round_pass(st, rows, tmf, w) ==
    per_round_credits(st, sorted_by_tick(rows), tmf, w)


(***************************************************************************)
(* The calls of calc_points that are explored.                             *)
(***************************************************************************)
MaxCount == 80
BigRounds == 1000

MkStat(kh, d, a, o, m, ar, spr) ==
    [kills |-> kh[1], hs |-> kh[2], deaths |-> d,
     assists |-> a[1], flash_assists |-> a[2], utility_dmg |-> a[3],
     opening_kills |-> o[1], opening_deaths |-> o[2],
     mk_3k |-> m[1], mk_4k |-> m[2], mk_5k |-> m[3],
     cl_1v2 |-> m[4], cl_1v3 |-> m[5], cl_1v4 |-> m[6], cl_1v5 |-> m[7],
     adr |-> ar[1], rating2 |-> ar[2], played_rounds |-> spr]

\* <<kills, hs>>
KillHsInputs == {<<0, 0>>, <<20, 11>>, <<MaxCount, MaxCount>>}
DeathInputs == {0, 10, MaxCount}
\* <<assists, flash_assists, utility_dmg>>
SupportInputs == {<<0, 0, RInt(0)>>, <<5, 3, RInt(100)>>}
\* <<opening_kills, opening_deaths>>
OpeningInputs == {<<0, 0>>, <<3, 1>>, <<1, 3>>}
\* <<mk_3k, mk_4k, mk_5k, cl_1v2, cl_1v3, cl_1v4, cl_1v5>>
MultiClutchInputs == {<<0, 0, 0, 0, 0, 0, 0>>, <<0, 1, 0, 1, 0, 0, 0>>}
\* <<adr, rating2>>
AdrRatingInputs == {<<None, None>>, <<RInt(40), Rat(80, 100)>>, <<RInt(90), Rat(125, 100)>>}
\* the played_rounds entry of the stat record (None: the key is absent)
StatRoundsInputs == {None, <<24>>}

StatInputs ==
    { MkStat(kh, d, a, o, m, ar, spr) :
      kh \in KillHsInputs, d \in DeathInputs, a \in SupportInputs,
      o \in OpeningInputs, m \in MultiClutchInputs, ar \in AdrRatingInputs,
      spr \in StatRoundsInputs }

\* a record of zeros, the best and the worst record of StatInputs
StatProfiles ==
    { MkStat(<<0, 0>>, 0, <<0, 0, RInt(0)>>, <<0, 0>>, <<0, 0, 0, 0, 0, 0, 0>>,
             <<None, None>>, None),
      MkStat(<<20, 11>>, 10, <<5, 3, RInt(100)>>, <<3, 1>>, <<0, 1, 0, 1, 0, 0, 0>>,
             <<RInt(90), Rat(125, 100)>>, <<24>>),
      MkStat(<<MaxCount, MaxCount>>, 0, <<5, 3, RInt(100)>>, <<3, 1>>,
             <<0, 1, 0, 1, 0, 0, 0>>, <<RInt(90), Rat(125, 100)>>, <<24>>),
      MkStat(<<0, 0>>, MaxCount, <<0, 0, RInt(0)>>, <<1, 3>>, <<0, 0, 0, 0, 0, 0, 0>>,
             <<RInt(40), Rat(80, 100)>>, <<24>>) }

\* adr and rating2 at, just below and between the steps of the two bonuses
AdrStepInputs == {None, Rat(4999, 100), RInt(50), Rat(6999, 100), RInt(70),
                  Rat(8499, 100), RInt(85)}
RatingStepInputs == {None, Rat(89, 100), Rat(90, 100), Rat(99, 100), RInt(1),
                     Rat(119, 100), Rat(120, 100)}
StatSteps ==
    { MkStat(<<20, 11>>, 10, <<5, 3, RInt(100)>>, <<3, 1>>, <<1, 1, 1, 1, 1, 1, 1>>,
             <<adr, rt>>, <<24>>) :
      adr \in AdrStepInputs, rt \in RatingStepInputs }

PlayedRoundsInputs == {None, <<0>>, <<1>>, <<24>>, <<BigRounds>>}
RoleInputs == ROLES \cup {NoneStr, "GHOST"}
\* <<winner_team_id, player_team_id>>
TeamIdInputs == {<<None, None>>, <<None, <<1>>>>, <<<<1>>, None>>, <<<<1>>, <<1>>>>,
                 <<<<1>>, <<2>>>>, <<<<0>>, <<0>>>>}

\* services.recalc_map: the stat_dict built from a PlayerMapStats row has no
\* played_rounds, flash_assists or utility_dmg key.
recalc_map_stat_dict(row) ==
    [row EXCEPT !.played_rounds = None, !.flash_assists = 0, !.utility_dmg = RInt(0)]

\* services.recalc_map: the calc_points call for one row and one roster entry
\* (role_badge or None; the winner of the map is not stored).
recalc_map_call(row, map_played_rounds, team_id, badge) ==
    [stat |-> recalc_map_stat_dict(row),
     played_rounds |-> map_played_rounds,
     ids |-> <<None, team_id>>,
     role |-> IF badge = "" THEN NoneStr ELSE badge]

\* the longest map of the sweep over round counts
MaxSweepRounds == 30

\* the record of example scenario 2 on maps of 0..MaxSweepRounds rounds
RoundSweepCalls ==
    { [stat |-> MkStat(<<20, 11>>, 10, <<5, 3, RInt(100)>>, <<3, 1>>,
                       <<0, 1, 0, 1, 0, 0, 0>>, <<RInt(90), Rat(125, 100)>>, Some(n)),
       played_rounds |-> Some(n), ids |-> <<None, None>>, role |-> NoneStr] :
        n \in 0..MaxSweepRounds }

RecalcMapCalls ==
    { recalc_map_call(row, pr, tid, r) :
        row \in StatProfiles, pr \in PlayedRoundsInputs, tid \in {None, <<1>>},
        r \in RoleInputs \cup {""} }

\* Every stat record with every role on a 24-round map without a known
\* winner, the profile records with every role, round count and team pair,
\* the step records without a role, and the profile records with the empty
\* role code, and the calls that recalc_map issues for the profile records.
ScoringCalls ==
    { [stat |-> s, played_rounds |-> <<24>>, ids |-> <<None, None>>, role |-> r] :
        s \in StatInputs, r \in RoleInputs }
    \cup
    { [stat |-> s, played_rounds |-> pr, ids |-> ids, role |-> r] :
        s \in StatProfiles, pr \in PlayedRoundsInputs, ids \in TeamIdInputs,
        r \in RoleInputs }
    \cup
    { [stat |-> s, played_rounds |-> <<24>>, ids |-> <<None, None>>, role |-> NoneStr] :
        s \in StatSteps }
    \cup
    { [stat |-> s, played_rounds |-> pr, ids |-> ids, role |-> ""] :
        s \in StatProfiles, pr \in PlayedRoundsInputs, ids \in TeamIdInputs }
    \cup
    RecalcMapCalls
    \cup
    RoundSweepCalls

NoBreakdown == [final |-> None]

IdleScoring ==
    /\ stat = [kills |-> 0]
    /\ played_rounds = None
    /\ role_badge = NoneStr
    /\ winner_team_id = None
    /\ player_team_id = None
    /\ points = None
    /\ breakdown = NoBreakdown
    /\ spc = "idle"

IdleNormalizer ==
    /\ w_raw = WNone
    /\ w_out = Returned(None)
    /\ npc = "idle"

IdleSegmenter ==
    /\ freeze_end = NoTable
    /\ round_end = NoTable
    /\ freeze_ticks = <<>>
    /\ re_df = <<>>
    /\ seg_i = 0
    /\ rounds = <<>>
    /\ winners = <<>>
    /\ seg_result = NoResult
    /\ dpc = "idle"
    /\ derr = NoneStr

IdleTeams ==
    /\ round_side_team = <<>>
    /\ base_t = NoneStr
    /\ base_ct = NoneStr
    /\ base_idx = None
    /\ half_split = 0
    /\ ot_start = 0
    /\ team_score = EmptyDict
    /\ team_side_score = EmptyTally.team_side_score
    /\ half_score = EmptyTally.half_score
    /\ tw_i = 0
    /\ winner_team = NoneStr
    /\ tpc = "idle"

IdleClutch ==
    /\ tm = <<>>
    /\ dr = <<>>
    /\ wteam = None
    /\ alive_t = {}
    /\ alive_ct = {}
    /\ candidate = NoCandidate
    /\ ev_i = 0
    /\ stats = <<>>
    /\ cpc = "idle"

IdleAggregate ==
    /\ round_team = <<>>
    /\ total_dmg = <<>>
    /\ agg_i = 0
    /\ agg_ev = 0
    /\ apc = "idle"
    /\ deaths_df = <<>>
    /\ hurts_df = <<>>
    /\ deaths_by_round = <<>>
    /\ pass_i = 0

IdleMembers ==
    /\ team_rows = <<>>
    /\ mem_i = 0
    /\ mpc = "idle"

IdleRecalc ==
    /\ game_map = <<>>
    /\ db = <<>>
    /\ db_commits = 0
    /\ db_lock = 0
    /\ work = <<>>
    /\ seen = <<>>
    /\ todo = <<>>
    /\ wpc = <<>>
    /\ ops = 0

IdleSignals ==
    /\ pending = None
    /\ tx = <<>>
    /\ hooks = <<>>
    /\ queued = <<>>
    /\ owed = {}
    /\ flush_ids = <<>>
    /\ hook_ids = <<>>
    /\ flush_due = {}

IdleLater ==
    /\ IdleMembers
    /\ IdleRecalc
    /\ IdleSignals

InitScoring ==
    /\ IdleLater
    /\ IdleNormalizer
    /\ IdleSegmenter
    /\ IdleTeams
    /\ IdleClutch
    /\ IdleAggregate
    /\ \E c \in ScoringCalls :
          /\ stat = c.stat
          /\ played_rounds = c.played_rounds
          /\ role_badge = c.role
          /\ winner_team_id = c.ids[1]
          /\ player_team_id = c.ids[2]
    /\ points = None
    /\ breakdown = NoBreakdown
    /\ spc = "call"

CalcPoints ==
    /\ spc = "call"
    /\ \E r \in {calc_points(stat, played_rounds, winner_team_id, player_team_id,
                            role_badge, ScoringParams)} :
           /\ points' = r.points
           /\ breakdown' = r.breakdown
           /\ stat' = r.stat
    /\ spc' = "returned"
    /\ UNCHANGED <<played_rounds, winner_team_id, player_team_id, role_badge>>
    /\ UNCHANGED <<normVars, segVars, teamVars, clutchVars, aggVars, laterVars>>

NextScoring == CalcPoints

SpecScoring == InitScoring /\ [][NextScoring]_vars

(***************************************************************************)
(* The calls of _normalize_winner that are explored.                       *)
(***************************************************************************)
MaxStrLen == 3
MaxCode == 5

WinnerChars == {"t", "T", "c", "C", "x", " ", "0", "1", "2", "3", Sup2}

WinnerStrings == UNION { [1..n -> WinnerChars] : n \in 0..MaxStrLen }

\* floats k/2 for k in -2*MaxCode..2*MaxCode: the whole numbers and the halves
WinnerFloats == { WFloat(k, 2) : k \in (-2 * MaxCode)..(2 * MaxCode) }

WinnerInputs ==
    {WNone, WNaN, WInf, WObj}
    \cup { WStr(s) : s \in WinnerStrings }
    \cup { WInt(n) : n \in (-MaxCode)..MaxCode }
    \cup WinnerFloats

InitNormalizer ==
    /\ IdleLater
    /\ IdleScoring
    /\ IdleSegmenter
    /\ IdleTeams
    /\ IdleClutch
    /\ IdleAggregate
    /\ w_raw \in WinnerInputs
    /\ w_out = Returned(None)
    /\ npc = "call"

NormalizeWinner ==
    /\ npc = "call"
    /\ w_out' = _normalize_winner(w_raw)
    /\ npc' = IF w_out'.raised THEN "raised" ELSE "returned"
    /\ UNCHANGED w_raw
    /\ UNCHANGED <<scoreVars, segVars, teamVars, clutchVars, aggVars, laterVars>>

NextNormalizer == NormalizeWinner

SpecNormalizer == InitNormalizer /\ [][NextNormalizer]_vars


(***************************************************************************)
(* The demos whose round segmentation is explored.                         *)
(***************************************************************************)
MaxTick == 3
MaxStarts == 2
MaxEnds == 2

Ticks == 1..MaxTick

\* the winner encodings met in round_end rows: a label, a team number, a
\* missing value, and a string on which _normalize_winner raises
SegWinnerCodes == {WStr(<<"T">>), WInt(CT_TEAM), WNone, WStr(<<Sup2>>)}

FreezeEndInputs ==
    {NoTable} \cup { Table(r) : r \in UNION { [1..n -> Ticks] : n \in 0..MaxStarts } }

RoundEndRows == [tick : Ticks, winner : SegWinnerCodes]

RoundEndInputs ==
    {NoTable} \cup { Table(r) : r \in UNION { [1..n -> RoundEndRows] : n \in 0..MaxEnds } }

InitSegmenter ==
    /\ IdleLater
    /\ IdleScoring
    /\ IdleNormalizer
    /\ IdleTeams
    /\ IdleClutch
    /\ IdleAggregate
    /\ freeze_end \in FreezeEndInputs
    /\ round_end \in RoundEndInputs
    /\ freeze_ticks = <<>>
    /\ re_df = <<>>
    /\ seg_i = 0
    /\ rounds = <<>>
    /\ winners = <<>>
    /\ seg_result = NoResult
    /\ dpc = "parse"
    /\ derr = NoneStr

\* lines 72-83: the mandatory event kinds are checked, then both are sorted
CheckEvents ==
    /\ dpc = "parse"
    /\ IF EventsMissing(freeze_end, round_end)
       THEN /\ dpc' = "raised"
            /\ derr' = "RuntimeError"
            /\ UNCHANGED <<freeze_ticks, re_df, seg_i>>
       ELSE /\ freeze_ticks' = sorted_set(freeze_end.rows)
            /\ re_df' \in sort_values_tick(round_end.rows)
            /\ seg_i' = 1
            /\ dpc' = "segment"
            /\ derr' = NoneStr
    /\ UNCHANGED <<freeze_end, round_end, rounds, winners, seg_result>>
    /\ UNCHANGED <<scoreVars, normVars, teamVars, clutchVars, aggVars, laterVars>>

\* lines 132-141: one iteration of `for s in freeze_ticks`
SegmentStep ==
    /\ dpc = "segment"
    /\ seg_i <= Len(freeze_ticks)
    /\ LET s == freeze_ticks[seg_i]
           re_ticks == [i \in 1..Len(re_df) |-> re_df[i].tick]
           j == bisect_right(re_ticks, s)
       IN  IF j >= Len(re_ticks)
           THEN /\ seg_i' = seg_i + 1
                /\ UNCHANGED <<rounds, winners, dpc, derr>>
           ELSE LET e == re_ticks[j + 1]
                    w == _normalize_winner(winner_at(re_df, e))
                IN  /\ rounds' = Append(rounds, <<s, e>>)
                    /\ IF w.raised
                       THEN /\ dpc' = "raised"
                            /\ derr' = "ValueError"
                            /\ UNCHANGED <<winners, seg_i>>
                       ELSE /\ winners' = Append(winners, w.value)
                            /\ seg_i' = seg_i + 1
                            /\ UNCHANGED <<dpc, derr>>
    /\ UNCHANGED <<freeze_end, round_end, freeze_ticks, re_df, seg_result>>
    /\ UNCHANGED <<scoreVars, normVars, teamVars, clutchVars, aggVars, laterVars>>

\* lines 143-156: the loop is over; the round count and the side tallies
SegmentDone ==
    /\ dpc = "segment"
    /\ seg_i > Len(freeze_ticks)
    /\ seg_result' = side_summary(rounds, winners)
    /\ dpc' = "segmented"
    /\ UNCHANGED <<freeze_end, round_end, freeze_ticks, re_df, seg_i, rounds, winners, derr>>
    /\ UNCHANGED <<scoreVars, normVars, teamVars, clutchVars, aggVars, laterVars>>

NextSegmenter == CheckEvents \/ SegmentStep \/ SegmentDone

SpecSegmenter == InitSegmenter /\ [][NextSegmenter]_vars


(***************************************************************************)
(* The maps whose team-based score is explored: the segmentation of a demo *)
(* with one start and one end tick per round has finished, and the clan    *)
(* names per round and side have been read.                                *)
(***************************************************************************)
MaxTeamRounds == 3

TeamNames == {"Alpha", "Beta"}
\* the two sides of a round never carry the same clan name
SideNameInputs ==
    { p \in [t : TeamNames \cup {NoneStr}, ct : TeamNames \cup {NoneStr}] :
        p.t = NoneStr \/ p.t # p.ct }
WinnerSideInputs == {Some(T_TEAM), Some(CT_TEAM), None}

\* the two names are interchangeable in lines 361-421: the name read first
\* is called "Alpha"
AlphaFirst(rst) ==
    \A i \in 1..Len(rst) :
        "Beta" \in {rst[i].t, rst[i].ct} =>
            \E j \in 1..i : "Alpha" \in {rst[j].t, rst[j].ct}

\* a round_end winner encoding that _normalize_winner maps to the side w
CodeOfSide(w) ==
    IF w = Some(T_TEAM) THEN WStr(<<"T">>)
    ELSE IF w = Some(CT_TEAM) THEN WInt(CT_TEAM)
    ELSE WNone

\* the state after lines 72-156 for a demo whose round i runs from tick
\* 2i - 1 to tick 2i and is won by ws[i]
SegmentedState(ws) ==
    LET n == Len(ws)
        ends == [i \in 1..n |-> [tick |-> 2 * i, winner |-> CodeOfSide(ws[i])]]
    IN  /\ freeze_end = Table([i \in 1..n |-> 2 * i - 1])
        /\ round_end = Table(ends)
        /\ freeze_ticks = [i \in 1..n |-> 2 * i - 1]
        /\ re_df = ends
        /\ seg_i = n + 1
        /\ rounds = [i \in 1..n |-> <<2 * i - 1, 2 * i>>]
        /\ winners = [i \in 1..n |-> _normalize_winner(ends[i].winner).value]
        /\ seg_result = side_summary(rounds, winners)
        /\ dpc = "segmented"
        /\ derr = NoneStr

InitTeams ==
    /\ IdleLater
    /\ IdleScoring
    /\ IdleNormalizer
    /\ IdleClutch
    /\ IdleAggregate
    /\ \E n \in 1..MaxTeamRounds :
          /\ \E ws \in [1..n -> WinnerSideInputs] : SegmentedState(ws)
          /\ round_side_team \in { rst \in [1..n -> SideNameInputs] : AlphaFirst(rst) }
    /\ base_t = NoneStr
    /\ base_ct = NoneStr
    /\ base_idx = None
    /\ half_split = 0
    /\ ot_start = 0
    /\ team_score = EmptyDict
    /\ team_side_score = EmptyTally.team_side_score
    /\ half_score = EmptyTally.half_score
    /\ tw_i = 0
    /\ winner_team = NoneStr
    /\ tpc = "halves"

\* lines 361-398: the empty tallies, the base assignment, both boundaries
DetectHalves ==
    /\ tpc = "halves"
    /\ LET n == seg_result.n_rounds
           b == base_assignment(round_side_team, n)
           hs == half_split_of(round_side_team, n, b)
       IN  /\ base_t' = b.base_t
           /\ base_ct' = b.base_ct
           /\ base_idx' = b.base_idx
           /\ half_split' = hs
           /\ ot_start' = ot_start_of(round_side_team, n, b, hs)
    /\ tw_i' = 0
    /\ tpc' = "count"
    /\ UNCHANGED <<round_side_team, team_score, team_side_score, half_score, winner_team>>
    /\ UNCHANGED <<scoreVars, normVars, segVars, clutchVars, aggVars, laterVars>>

\* lines 400-415: one iteration of `for i, wside in enumerate(winners)`
CountRound ==
    /\ tpc = "count"
    /\ tw_i < Len(winners)
    /\ \E r \in { count_round([team_score |-> team_score,
                               team_side_score |-> team_side_score,
                               half_score |-> half_score],
                              tw_i, winners[tw_i + 1], round_side_team,
                              half_split, ot_start) } :
          /\ team_score' = r.team_score
          /\ team_side_score' = r.team_side_score
          /\ half_score' = r.half_score
    /\ tw_i' = tw_i + 1
    /\ UNCHANGED <<round_side_team, base_t, base_ct, base_idx, half_split, ot_start,
                   winner_team, tpc>>
    /\ UNCHANGED <<scoreVars, normVars, segVars, clutchVars, aggVars, laterVars>>

\* lines 417-440: the team-level winner, and the result is returned
PickWinnerTeam ==
    /\ tpc = "count"
    /\ tw_i >= Len(winners)
    /\ winner_team' = winner_team_of(team_score)
    /\ tpc' = "done"
    /\ UNCHANGED <<round_side_team, base_t, base_ct, base_idx, half_split, ot_start,
                   team_score, team_side_score, half_score, tw_i>>
    /\ UNCHANGED <<scoreVars, normVars, segVars, clutchVars, aggVars, laterVars>>

NextTeams == DetectHalves \/ CountRound \/ PickWinnerTeam

SpecTeams == InitTeams /\ [][NextTeams]_vars

(***************************************************************************)
(* Team scoring on maps longer than a regulation half: the clan names per  *)
(* side are constant over up to three stretches of rounds, the winners     *)
(* follow one of three patterns.                                           *)
(***************************************************************************)
MaxLongRounds == 14

AB == [t |-> "Alpha", ct |-> "Beta"]
BA == [t |-> "Beta", ct |-> "Alpha"]
NN == [t |-> NoneStr, ct |-> NoneStr]
AN == [t |-> "Alpha", ct |-> NoneStr]

\* the 0-based rounds at which the names may change
CutInputs(n) == {0, 1, HALF_DEFAULT, HALF_DEFAULT + 1, n}

Stretches(n, c1, c2, p1, p2, p3) ==
    [i \in 1..n |-> IF i - 1 < c1 THEN p1 ELSE IF i - 1 < c2 THEN p2 ELSE p3]

LongSideNames(n) ==
    { Stretches(n, c1, c2, p1, p2, p3) :
        c1 \in CutInputs(n), c2 \in CutInputs(n),
        p1 \in {AB, NN, AN}, p2 \in {AB, BA, NN}, p3 \in {AB, BA, NN, AN} }

LongWinners(n) ==
    { [i \in 1..n |-> Some(T_TEAM)],
      [i \in 1..n |-> IF i % 2 = 1 THEN Some(T_TEAM) ELSE Some(CT_TEAM)],
      [i \in 1..n |-> IF i % 3 = 0 THEN None ELSE Some(CT_TEAM)] }

InitLongMaps ==
    /\ IdleLater
    /\ IdleScoring
    /\ IdleNormalizer
    /\ IdleClutch
    /\ IdleAggregate
    /\ \E n \in (MaxLongRounds - 1)..MaxLongRounds :
          /\ \E ws \in LongWinners(n) : SegmentedState(ws)
          /\ round_side_team \in LongSideNames(n)
    /\ base_t = NoneStr
    /\ base_ct = NoneStr
    /\ base_idx = None
    /\ half_split = 0
    /\ ot_start = 0
    /\ team_score = EmptyDict
    /\ team_side_score = EmptyTally.team_side_score
    /\ half_score = EmptyTally.half_score
    /\ tw_i = 0
    /\ winner_team = NoneStr
    /\ tpc = "halves"

SpecLongMaps == InitLongMaps /\ [][NextTeams]_vars


(***************************************************************************)
(* The rounds whose clutch detection is explored: up to MaxSide players on *)
(* each side (line 170 keeps the rows of T and CT only) and up to          *)
(* MaxDeaths death events.  Players of one side are interchangeable in     *)
(* lines 314-354, so a death list names the players of a side in the       *)
(* order of their first death.                                             *)
(***************************************************************************)
MaxSide == 5
MaxDeaths == 3

TSid(i) == 10 + i
CTSid(i) == 20 + i
StrangerSid == 99

\* round_team[ridx] with nt players on T and nc on CT
RoundTeam(nt, nc) ==
    [sid \in { TSid(i) : i \in 1..nt } \cup { CTSid(i) : i \in 1..nc } |->
        IF sid < CTSid(1) THEN T_TEAM ELSE CT_TEAM]

SeqElems(s) == { s[j] : j \in 1..Len(s) }

\* the victims that may follow the death list s
NextVictims(tmf, s) ==
    LET dead == SeqElems(s)
        fresh(side) == LET l == members(tmf, side) \ dead
                       IN  IF l = {} THEN {} ELSE {SetMin(l)}
        again(side) == LET d == members(tmf, side) \cap dead
                       IN  IF d = {} THEN {} ELSE {SetMin(d)}
    IN  {EmptySid, StrangerSid}
        \cup fresh(T_TEAM) \cup again(T_TEAM)
        \cup fresh(CT_TEAM) \cup again(CT_TEAM)

RECURSIVE DeathLists(_, _)
DeathLists(tmf, k) ==
    IF k = 0 THEN {<<>>}
    ELSE LET prev == DeathLists(tmf, k - 1)
         IN  prev \cup UNION { { Append(s, v) : v \in NextVictims(tmf, s) } :
                               s \in { q \in prev : Len(q) = k - 1 } }

InitClutch ==
    /\ IdleLater
    /\ IdleScoring
    /\ IdleNormalizer
    /\ IdleSegmenter
    /\ IdleTeams
    /\ IdleAggregate
    /\ \E nt \in 1..MaxSide, nc \in 1..MaxSide :
          /\ tm = RoundTeam(nt, nc)
          /\ dr \in DeathLists(RoundTeam(nt, nc), MaxDeaths)
          /\ stats = [sid \in DOMAIN RoundTeam(nt, nc) |-> NoClutch]
    /\ wteam \in WinnerSideInputs
    /\ alive_t = {}
    /\ alive_ct = {}
    /\ candidate = NoCandidate
    /\ ev_i = 0
    /\ cpc = "round"

\* lines 314-317
StartRound ==
    /\ cpc = "round"
    /\ alive_t' = members(tm, T_TEAM)
    /\ alive_ct' = members(tm, CT_TEAM)
    /\ candidate' = NoCandidate
    /\ ev_i' = 1
    /\ cpc' = "deaths"
    /\ UNCHANGED <<tm, dr, wteam, stats>>
    /\ UNCHANGED <<scoreVars, normVars, segVars, teamVars, aggVars, laterVars>>

\* lines 319-339: one iteration of `for ev in dr`
ApplyDeath ==
    /\ cpc = "deaths"
    /\ ev_i <= Len(dr)
    /\ LET v_sid == dr[ev_i]
       IN  IF v_sid = EmptySid \/ v_sid \notin DOMAIN tm
           THEN UNCHANGED <<alive_t, alive_ct, candidate>>
           ELSE LET at == IF tm[v_sid] = T_TEAM THEN alive_t \ {v_sid} ELSE alive_t
                    act == IF tm[v_sid] = T_TEAM THEN alive_ct ELSE alive_ct \ {v_sid}
                IN  /\ alive_t' = at
                    /\ alive_ct' = act
                    /\ candidate' = candidate_after(candidate, at, act)
    /\ ev_i' = ev_i + 1
    /\ UNCHANGED <<tm, dr, wteam, stats, cpc>>
    /\ UNCHANGED <<scoreVars, normVars, segVars, teamVars, aggVars, laterVars>>

\* lines 341-354: the credit of the round
CreditClutch ==
    /\ cpc = "deaths"
    /\ ev_i > Len(dr)
    /\ \E c \in {clutch_credit(candidate, wteam, alive_t, alive_ct)} :
          stats' = IF c = None THEN stats
                   ELSE [stats EXCEPT ![c[1]] = add_clutch(@, c[2])]
    /\ cpc' = "done"
    /\ UNCHANGED <<tm, dr, wteam, alive_t, alive_ct, candidate, ev_i>>
    /\ UNCHANGED <<scoreVars, normVars, segVars, teamVars, aggVars, laterVars>>

NextClutch == StartRound \/ ApplyDeath \/ CreditClutch

SpecClutch == InitClutch /\ [][NextClutch]_vars


(***************************************************************************)
(* The player records that are explored: a segmented demo of up to         *)
(* MaxAggRounds rounds (or with no round at all), one possible member per  *)
(* side and round, and up to MaxAggEvents player_death / player_hurt rows  *)
(* at any tick; next to them, the calc_points calls whose stat record      *)
(* carries its own played_rounds.  deaths_by_round, which feeds the        *)
(* per-round passes, is not kept here.                                     *)
(***************************************************************************)
MaxAggRounds == 1
MaxAggEvents == 1

\* a demo whose only start tick has no later end tick: no round
UnpairedState ==
    /\ freeze_end = Table(<<2>>)
    /\ round_end = Table(<<[tick |-> 1, winner |-> WNone]>>)
    /\ freeze_ticks = <<2>>
    /\ re_df = <<[tick |-> 1, winner |-> WNone]>>
    /\ seg_i = 2
    /\ rounds = <<>>
    /\ winners = <<>>
    /\ seg_result = side_summary(<<>>, <<>>)
    /\ dpc = "segmented"
    /\ derr = NoneStr

MemberInputs == { RoundTeam(nt, nc) : nt \in 0..1, nc \in 0..1 }

\* round i runs from tick 2i - 1 to tick 2i: one tick before the first round,
\* one tick in every round, one tick after the last round
AggTicks == {0} \cup { 2 * i : i \in 1..Len(rounds) } \cup {2 * Len(rounds) + 1}

\* <<attacker_steamid, attacker_name, headshot>>
AttackerInputs == {<<EmptySid, "", FALSE>>, <<CTSid(1), "p", FALSE>>,
                   <<CTSid(1), "p", TRUE>>, <<StrangerSid, "world", FALSE>>,
                   <<StrangerSid, "p", FALSE>>}
\* <<assister_steamid, assistedflash>>
AssisterInputs == {<<EmptySid, FALSE>>, <<TSid(1), TRUE>>}

DeathRows ==
    { [tick |-> tk, user_steamid |-> v, attacker_steamid |-> a[1],
       attacker_name |-> a[2], headshot |-> a[3], assister_steamid |-> s[1],
       assister_name |-> "p", assistedflash |-> s[2]] :
      tk \in AggTicks, v \in {EmptySid, TSid(1), StrangerSid},
      a \in AttackerInputs, s \in AssisterInputs }

HurtRows ==
    { [tick |-> tk, attacker_steamid |-> a, user_steamid |-> v,
       dmg_health |-> d, utility |-> u] :
      tk \in AggTicks, a \in {EmptySid, TSid(1), StrangerSid},
      v \in {EmptySid, TSid(1), CTSid(1)}, d \in {0, 50}, u \in BOOLEAN }

InitAggregate ==
    /\ IdleLater
    /\ IdleScoring
    /\ IdleNormalizer
    /\ IdleTeams
    /\ IdleClutch
    /\ \E n \in 0..MaxAggRounds :
          /\ IF n = 0 THEN UnpairedState
             ELSE SegmentedState([i \in 1..n |-> Some(T_TEAM)])
          /\ round_team \in [1..n -> MemberInputs]
    /\ total_dmg = <<>>
    /\ agg_i = 0
    /\ agg_ev = 0
    /\ apc = "members"
    /\ deaths_df = <<>>
    /\ hurts_df = <<>>
    /\ deaths_by_round = <<>>
    /\ pass_i = 0

\* the stat records of StatProfiles with their own played_rounds entry
RoleStatInputs ==
    { [s EXCEPT !.played_rounds = spr] :
      s \in StatProfiles, spr \in PlayedRoundsInputs }

InitRoleCalls ==
    /\ IdleLater
    /\ IdleNormalizer
    /\ IdleSegmenter
    /\ IdleTeams
    /\ IdleClutch
    /\ IdleAggregate
    /\ stat \in RoleStatInputs
    /\ played_rounds \in {None, <<24>>}
    /\ role_badge \in RoleInputs
    /\ winner_team_id = None
    /\ player_team_id = None
    /\ points = None
    /\ breakdown = NoBreakdown
    /\ spc = "call"

InitDivisors == InitAggregate \/ InitRoleCalls

\* lines 229-231: one iteration of `for ridx in range(n_rounds)`
CountMembers ==
    /\ apc = "members"
    /\ agg_i < seg_result.n_rounds
    /\ stats' = count_members(stats, DOMAIN round_team[agg_i + 1])
    /\ agg_i' = agg_i + 1
    /\ UNCHANGED <<round_team, total_dmg, agg_ev, apc>>
    /\ UNCHANGED <<evVars, laterVars>>
    /\ UNCHANGED <<tm, dr, wteam, alive_t, alive_ct, candidate, ev_i, cpc>>
    /\ UNCHANGED <<scoreVars, normVars, segVars, teamVars>>

MembersCounted == apc = "members" /\ agg_i >= seg_result.n_rounds

\* lines 238-262: one iteration of `for _, r in deaths.iterrows()`
RecordDeath ==
    /\ MembersCounted \/ apc = "deaths"
    /\ agg_ev < MaxAggEvents
    /\ \E r \in DeathRows : stats' = record_death(stats, rounds, r)
    /\ agg_ev' = agg_ev + 1
    /\ apc' = "deaths"
    /\ UNCHANGED <<round_team, total_dmg, agg_i>>
    /\ UNCHANGED <<evVars, laterVars>>
    /\ UNCHANGED <<tm, dr, wteam, alive_t, alive_ct, candidate, ev_i, cpc>>
    /\ UNCHANGED <<scoreVars, normVars, segVars, teamVars>>

\* lines 264-287: one iteration of `for _, r in hurts.iterrows()`
RecordHurt ==
    /\ MembersCounted \/ apc \in {"deaths", "hurts"}
    /\ agg_ev < MaxAggEvents
    /\ \E r \in HurtRows :
          \E h \in {record_hurt(stats, total_dmg, rounds, round_team, r)} :
              /\ stats' = h.stats
              /\ total_dmg' = h.total_dmg
    /\ agg_ev' = agg_ev + 1
    /\ apc' = "hurts"
    /\ UNCHANGED <<round_team, agg_i>>
    /\ UNCHANGED <<evVars, laterVars>>
    /\ UNCHANGED <<tm, dr, wteam, alive_t, alive_ct, candidate, ev_i, cpc>>
    /\ UNCHANGED <<scoreVars, normVars, segVars, teamVars>>

\* lines 356-358: adr of every player record; a zero divisor raises
FinalizeAdr ==
    /\ MembersCounted \/ apc \in {"deaths", "hurts"}
    /\ IF \E sid \in DOMAIN stats :
             adr_divisor(stats[sid].rounds_played, seg_result.n_rounds) = 0
       THEN /\ apc' = "ZeroDivisionError"
            /\ UNCHANGED stats
       ELSE /\ apc' = "done"
            /\ stats' = [sid \in DOMAIN stats |->
                           [stats[sid] EXCEPT !.adr =
                              RDiv(dmg_of(total_dmg, sid),
                                   RInt(adr_divisor(stats[sid].rounds_played,
                                                    seg_result.n_rounds)))]]
    /\ UNCHANGED <<round_team, total_dmg, agg_i, agg_ev>>
    /\ UNCHANGED <<evVars, laterVars>>
    /\ UNCHANGED <<tm, dr, wteam, alive_t, alive_ct, candidate, ev_i, cpc>>
    /\ UNCHANGED <<scoreVars, normVars, segVars, teamVars>>

(***************************************************************************)
(* The event passes on a demo of two rounds: the rounds are apart (a tick  *)
(* between them belongs to no round) or share their end tick (the second   *)
(* start has no end tick of its own before the common one); the death and  *)
(* damage tables hold up to MaxEventRows rows together, in file order.     *)
(***************************************************************************)
MaxEventRows == 2

\* the state after lines 72-156 for the start ticks, the end ticks and the
\* rounds rs paired from them, every round won by T
PairedState(starts, ends, rs) ==
    LET n == Len(rs)
        endrows == [i \in 1..Len(ends) |-> [tick |-> ends[i], winner |-> WStr(<<"T">>)]]
    IN  /\ freeze_end = Table(starts)
        /\ round_end = Table(endrows)
        /\ freeze_ticks = starts
        /\ re_df = endrows
        /\ seg_i = Len(starts) + 1
        /\ rounds = rs
        /\ winners = [i \in 1..n |-> Some(T_TEAM)]
        /\ seg_result = side_summary(rs, [i \in 1..n |-> Some(T_TEAM)])
        /\ dpc = "segmented"
        /\ derr = NoneStr

RoundsApart == PairedState(<<1, 4>>, <<2, 5>>, <<<<1, 2>>, <<4, 5>>>>)
RoundsSharingEnd == PairedState(<<1, 2>>, <<4>>, <<<<1, 4>>, <<2, 4>>>>)

\* before the first start, in and between the rounds, after the last end
EventTicks == {0, 1, 2, 3, 4, 6}

DeathRow(tk, v, a, s) ==
    [tick |-> tk, user_steamid |-> v, attacker_steamid |-> a[1],
     attacker_name |-> a[2], headshot |-> a[3], assister_steamid |-> s[1],
     assister_name |-> s[2], assistedflash |-> s[3]]

NoAssister == <<EmptySid, "", FALSE>>

\* a headshot kill of the T player at every tick, a kill of the CT player in
\* the first two ticks, and at tick 1 the rows without a victim id, with the
\* world as attacker and assister, and with an assist only
EventDeathRows ==
    { DeathRow(tk, TSid(1), <<CTSid(1), "p", TRUE>>, NoAssister) : tk \in EventTicks }
    \cup
    { DeathRow(tk, CTSid(1), <<TSid(1), "p", FALSE>>, <<TSid(2), "p", TRUE>>) :
        tk \in {1, 2} }
    \cup
    { DeathRow(1, EmptySid, <<CTSid(1), "p", FALSE>>, NoAssister),
      DeathRow(1, TSid(1), <<CTSid(1), "world", TRUE>>, <<CTSid(2), "World", TRUE>>),
      DeathRow(1, TSid(2), <<EmptySid, "", FALSE>>, <<TSid(1), "p", FALSE>>) }

HurtRow(tk, a, v, d, u) ==
    [tick |-> tk, attacker_steamid |-> a, user_steamid |-> v,
     dmg_health |-> d, utility |-> u]

EventHurtRows ==
    { HurtRow(tk, CTSid(1), TSid(1), 50, FALSE) : tk \in EventTicks }
    \cup
    { HurtRow(1, TSid(1), CTSid(1), 30, TRUE),
      HurtRow(1, TSid(1), TSid(2), 50, FALSE),
      HurtRow(1, StrangerSid, TSid(1), 50, FALSE),
      HurtRow(1, CTSid(1), TSid(1), 0, FALSE) }

SeqsUpTo(S, k) == UNION { [1..m -> S] : m \in 0..k }

InitEvents ==
    /\ IdleLater
    /\ IdleScoring
    /\ IdleNormalizer
    /\ IdleTeams
    /\ IdleClutch
    /\ RoundsApart \/ RoundsSharingEnd
    \* both players of T and the CT player in the first round, the CT player
    \* missing in the second
    /\ round_team = <<RoundTeam(2, 1), RoundTeam(2, 0)>>
    /\ \E nd \in 0..MaxEventRows :
          /\ deaths_df \in [1..nd -> EventDeathRows]
          /\ hurts_df \in SeqsUpTo(EventHurtRows, MaxEventRows - nd)
    /\ deaths_by_round = <<<<>>, <<>>>>
    /\ total_dmg = <<>>
    /\ agg_i = 0
    /\ agg_ev = 0
    /\ pass_i = 0
    /\ apc = "members"

\* lines 238-262: one iteration of `for _, r in deaths.iterrows()`
DeathEvent ==
    /\ MembersCounted \/ apc = "deaths"
    /\ agg_ev < Len(deaths_df)
    /\ stats' = record_death(stats, rounds, deaths_df[agg_ev + 1])
    /\ deaths_by_round' = append_death(deaths_by_round, rounds, deaths_df[agg_ev + 1])
    /\ agg_ev' = agg_ev + 1
    /\ apc' = "deaths"
    /\ UNCHANGED <<round_team, total_dmg, agg_i, deaths_df, hurts_df, pass_i>>
    /\ UNCHANGED <<tm, dr, wteam, alive_t, alive_ct, candidate, ev_i, cpc>>
    /\ UNCHANGED <<scoreVars, normVars, segVars, teamVars, laterVars>>

\* lines 264-287: one iteration of `for _, r in hurts.iterrows()`
HurtEvent ==
    /\ MembersCounted \/ apc \in {"deaths", "hurts"}
    /\ agg_ev >= Len(deaths_df)
    /\ agg_ev < Len(deaths_df) + Len(hurts_df)
    /\ \E h \in {record_hurt(stats, total_dmg, rounds, round_team,
                              hurts_df[agg_ev - Len(deaths_df) + 1])} :
          /\ stats' = h.stats
          /\ total_dmg' = h.total_dmg
    /\ agg_ev' = agg_ev + 1
    /\ apc' = "hurts"
    /\ UNCHANGED <<round_team, agg_i, deaths_df, hurts_df, deaths_by_round, pass_i>>
    /\ UNCHANGED <<tm, dr, wteam, alive_t, alive_ct, candidate, ev_i, cpc>>
    /\ UNCHANGED <<scoreVars, normVars, segVars, teamVars, laterVars>>

\* lines 289-354: one iteration of `for ridx in range(n_rounds)`
RoundPass ==
    /\ MembersCounted \/ apc \in {"deaths", "hurts", "rounds"}
    /\ agg_ev >= Len(deaths_df) + Len(hurts_df)
    /\ pass_i < seg_result.n_rounds
    /\ stats' = per_round_pass(stats, deaths_by_round[pass_i + 1],
                               round_team[pass_i + 1], winners[pass_i + 1])
    /\ pass_i' = pass_i + 1
    /\ apc' = "rounds"
    /\ UNCHANGED <<round_team, total_dmg, agg_i, agg_ev, deaths_df, hurts_df, deaths_by_round>>
    /\ UNCHANGED <<tm, dr, wteam, alive_t, alive_ct, candidate, ev_i, cpc>>
    /\ UNCHANGED <<scoreVars, normVars, segVars, teamVars, laterVars>>

\* lines 356-358: adr of every player record (every round has a member, no
\* divisor is 0 here)
FinalizeEvents ==
    /\ apc = "rounds"
    /\ pass_i >= seg_result.n_rounds
    /\ stats' = [sid \in DOMAIN stats |->
                    [stats[sid] EXCEPT !.adr =
                       RDiv(dmg_of(total_dmg, sid),
                            RInt(adr_divisor(stats[sid].rounds_played,
                                             seg_result.n_rounds)))]]
    /\ apc' = "done"
    /\ UNCHANGED <<round_team, total_dmg, agg_i, agg_ev, evVars>>
    /\ UNCHANGED <<tm, dr, wteam, alive_t, alive_ct, candidate, ev_i, cpc>>
    /\ UNCHANGED <<scoreVars, normVars, segVars, teamVars, laterVars>>

NextEvents == CountMembers \/ DeathEvent \/ HurtEvent \/ RoundPass \/ FinalizeEvents

SpecEvents == InitEvents /\ [][NextEvents]_vars

NextDivisors == CountMembers \/ RecordDeath \/ RecordHurt \/ FinalizeAdr \/ CalcPoints

SpecDivisors == InitDivisors /\ [][NextDivisors]_vars

(***************************************************************************)
(* demo_parser.extract_map_stats_from_demo, lines 160-210: the membership  *)
(* of every round from the samples taken at the round start ticks.         *)
(***************************************************************************)
MaxSamples == 3
SPECTATOR_TEAM == 1

\* line 170: the samples of the two playing sides
keep_sides(rows) == SelectSeq(rows, LAMBDA r : r.team_num \in {T_TEAM, CT_TEAM})

\* line 172 and tick_to_ridx.get(tick): the round that starts at the tick
tick_to_ridx(rs, tick) ==
    MaxOrNone({ i \in 0..(Len(rs) - 1) : rs[i + 1][1] = tick })

\* lines 203-209: round_team[ridx][sid] = (name, team) for one sample
membership_row(rt, rs, row) ==
    LET ridx == tick_to_ridx(rs, row.tick)
    IN  IF ridx = None THEN rt
        ELSE [rt EXCEPT ![ridx[1] + 1] = Put(@, row.steamid, row.team_num)]

Sample(tk, sid, team) == [tick |-> tk, steamid |-> sid, team_num |-> team]

\* samples of one player on either side at tick 1 (a round start) and at
\* tick 2 (a round start of one of the two maps only), of a second player,
\* and of a spectator
SampleRows ==
    { Sample(tk, TSid(1), team) : tk \in {1, 2}, team \in {T_TEAM, CT_TEAM} }
    \cup { Sample(1, CTSid(1), CT_TEAM), Sample(1, TSid(1), SPECTATOR_TEAM) }

InitMembers ==
    /\ IdleScoring
    /\ IdleNormalizer
    /\ IdleTeams
    /\ IdleClutch
    /\ RoundsApart \/ RoundsSharingEnd
    /\ team_rows \in SeqsUpTo(SampleRows, MaxSamples)
    /\ round_team = <<>>
    /\ total_dmg = <<>>
    /\ agg_i = 0
    /\ agg_ev = 0
    /\ apc = "idle"
    /\ deaths_df = <<>>
    /\ hurts_df = <<>>
    /\ deaths_by_round = <<>>
    /\ pass_i = 0
    /\ mem_i = 0
    /\ mpc = "parsed"
    /\ IdleRecalc
    /\ IdleSignals

\* lines 170-174: the filter and the empty membership of every round
FilterSamples ==
    /\ mpc = "parsed"
    /\ team_rows' = keep_sides(team_rows)
    /\ round_team' = [i \in 1..seg_result.n_rounds |-> <<>>]
    /\ mpc' = "rows"
    /\ UNCHANGED <<mem_i, total_dmg, agg_i, agg_ev, apc, evVars>>
    /\ UNCHANGED <<scoreVars, normVars, segVars, teamVars, clutchVars, dbVars, sigVars>>

\* lines 202-210: one iteration of `for _, row in team_rows.iterrows()`
MemberSample ==
    /\ mpc = "rows"
    /\ mem_i < Len(team_rows)
    /\ round_team' = membership_row(round_team, rounds, team_rows[mem_i + 1])
    /\ mem_i' = mem_i + 1
    /\ UNCHANGED <<team_rows, mpc, total_dmg, agg_i, agg_ev, apc, evVars>>
    /\ UNCHANGED <<scoreVars, normVars, segVars, teamVars, clutchVars, dbVars, sigVars>>

MembersDone ==
    /\ mpc = "rows"
    /\ mem_i >= Len(team_rows)
    /\ mpc' = "done"
    /\ UNCHANGED <<team_rows, mem_i, aggVars>>
    /\ UNCHANGED <<scoreVars, normVars, segVars, teamVars, clutchVars, dbVars, sigVars>>

NextMembers == FilterSamples \/ MemberSample \/ MembersDone

SpecMembers == InitMembers /\ [][NextMembers]_vars

(***************************************************************************)
(* services.recalc_map and api_admin_demo_import.admin_import_demo on the  *)
(* sqlite3 database of settings.py: two workers, each with its own         *)
(* connection, write PlayerMapStats and FantasyPoints rows of one map.     *)
(***************************************************************************)
MaxOps == 3

Workers == {1, 2}
NoLock == 0
MapId == 1

\* models.py 18-20: the team of each player
PlayerTeam == (1 :> Some(1)) @@ (2 :> Some(2))

\* models.py 90-93: the FantasyRoster rows of the tournament, in table order
Rosters ==
    << [fantasy_team |-> 1, player |-> 1, role_badge |-> ""],
       [fantasy_team |-> 1, player |-> 2, role_badge |-> "SUPPORT"],
       [fantasy_team |-> 2, player |-> 1, role_badge |-> "ENTRY_FRAGGER"] >>

\* the stat columns of a PlayerMapStats row: an average and a strong map
AverageRow ==
    MkStat(<<10, 4>>, 10, <<2, 1, RInt(20)>>, <<1, 1>>, <<0, 0, 0, 0, 0, 0, 0>>,
           <<RInt(70), RInt(1)>>, None)
StrongRow ==
    MkStat(<<20, 11>>, 10, <<5, 3, RInt(100)>>, <<3, 1>>, <<0, 1, 0, 1, 0, 0, 0>>,
           <<RInt(90), Rat(125, 100)>>, None)

\* models.py 214-241: neither model declares a unique constraint, so a table
\* is a sequence of rows in which a key may occur more than once
Matches(rows, keys, row) ==
    { i \in 1..Len(rows) : \A f \in keys : rows[i][f] = row[f] }

\* A variant of update_or_create that inserts without looking the key up.
objects_create(rows, keys, row) == [rows |-> Append(rows, row), raised |-> NoneStr]

\* QuerySet.update_or_create(**key, defaults=...): get, then create or save
update_or_create(rows, keys, row) ==
    LET hit == Matches(rows, keys, row)
    IN  IF hit = {} THEN [rows |-> Append(rows, row), raised |-> NoneStr]
        ELSE IF Cardinality(hit) = 1
             THEN [rows |-> [rows EXCEPT ![CHOOSE i \in hit : TRUE] = row],
                   raised |-> NoneStr]
             ELSE [rows |-> rows, raised |-> "MultipleObjectsReturned"]

PmsKey == {"map", "player"}
FpKey == {"fantasy_team", "map", "player"}

\* api_admin_demo_import.py 249-253: the row of one entry of players_stats
import_row(rows, mid, ps) ==
    update_or_create(rows, PmsKey, [map |-> mid, player |-> ps.player, stat |-> ps.stat])

\* services.py 574-578: roster_by_player.get(player_id, [])
roster_by_player(pid) == SelectSeq(Rosters, LAMBDA r : r.player = pid)

\* services.py 593-601: the calc_points call for one row and one roster entry
recalc_points(gm, s, r) ==
    LET c == recalc_map_call(s.stat, gm.played_rounds, PlayerTeam[s.player], r.role_badge)
    IN  calc_points(c.stat, c.played_rounds, c.ids[1], c.ids[2], c.role, ScoringParams)

\* services.py 602-607: the FantasyPoints row written for it
fantasy_points_row(gm, s, r, res) ==
    [fantasy_team |-> r.fantasy_team, map |-> gm.id, player |-> s.player,
     points |-> res.points, team_win_bonus |-> res.breakdown.team_win_bonus]

RECURSIVE recalc_row(_, _, _, _)
\* services.py 593-608: the inner loop over the roster entries of one row
recalc_row(rows, gm, s, entries) ==
    IF entries = <<>> THEN [rows |-> rows, raised |-> NoneStr]
    ELSE LET r == Head(entries)
             u == update_or_create(rows, FpKey,
                                   fantasy_points_row(gm, s, r, recalc_points(gm, s, r)))
         IN  IF u.raised # NoneStr THEN u
             ELSE recalc_row(u.rows, gm, s, Tail(entries))

\* settings.py 62: sqlite3 lets one connection write at a time, and a
\* connection that has read in its transaction may write only if no other
\* connection has committed since; otherwise the statement fails with
\* OperationalError (database is locked)
write_allowed(w) ==
    /\ db_lock \in {NoLock, w}
    /\ seen[w] = db_commits

EmptyTables == [pms |-> <<>>, fp |-> <<>>]

\* the players_stats lists of the imported demos; the last one names the
\* same player twice
ImportPayloads ==
    { << [player |-> 1, stat |-> AverageRow] >>,
      << [player |-> 1, stat |-> StrongRow], [player |-> 2, stat |-> AverageRow] >>,
      << [player |-> 2, stat |-> StrongRow], [player |-> 2, stat |-> AverageRow] >> }

\* models.py 160-212: the map with its round count and its winner
MapInputs ==
    { [id |-> MapId, played_rounds |-> Some(24), winner_id |-> w] :
        w \in {None, Some(1), Some(2)} }

InitRecalc ==
    /\ IdleScoring
    /\ IdleNormalizer
    /\ IdleSegmenter
    /\ IdleTeams
    /\ IdleClutch
    /\ IdleAggregate
    /\ IdleMembers
    /\ IdleSignals
    /\ game_map \in MapInputs
    /\ db = EmptyTables
    /\ db_commits = 0
    /\ db_lock = NoLock
    /\ work = [w \in Workers |-> EmptyTables]
    /\ seen = [w \in Workers |-> 0]
    /\ todo = [w \in Workers |-> <<>>]
    /\ wpc = [w \in Workers |-> "idle"]
    /\ ops = 0

OtherUnchanged ==
    UNCHANGED <<scoreVars, normVars, segVars, teamVars, clutchVars, aggVars, memVars, sigVars>>

\* the transaction of worker w ends without a commit
RolledBack(w) ==
    /\ wpc' = [wpc EXCEPT ![w] = "idle"]
    /\ todo' = [todo EXCEPT ![w] = <<>>]
    /\ work' = [work EXCEPT ![w] = EmptyTables]
    /\ db_lock' = IF db_lock = w THEN NoLock ELSE db_lock
    /\ UNCHANGED <<db, db_commits, seen>>

\* the outermost atomic block of worker w commits
Committed(w) ==
    /\ db' = IF db_lock = w THEN work[w] ELSE db
    /\ db_commits' = IF db_lock = w THEN db_commits + 1 ELSE db_commits
    /\ db_lock' = IF db_lock = w THEN NoLock ELSE db_lock
    /\ wpc' = [wpc EXCEPT ![w] = "idle"]
    /\ work' = [work EXCEPT ![w] = EmptyTables]
    /\ UNCHANGED <<todo, seen>>

\* api_admin_demo_import.py 71: the request enters its atomic block
StartImport(w) ==
    /\ wpc[w] = "idle"
    /\ ops < MaxOps
    /\ ops' = ops + 1
    /\ \E pl \in ImportPayloads : todo' = [todo EXCEPT ![w] = pl]
    /\ work' = [work EXCEPT ![w] = db]
    /\ seen' = [seen EXCEPT ![w] = db_commits]
    /\ wpc' = [wpc EXCEPT ![w] = "import"]
    /\ UNCHANGED <<game_map, db, db_commits, db_lock>>
    /\ OtherUnchanged

\* api_admin_demo_import.py 196-253: one iteration of `for ps in players_stats`
ImportRow(w) ==
    /\ wpc[w] = "import"
    /\ todo[w] # <<>>
    /\ LET u == import_row(work[w].pms, game_map.id, Head(todo[w]))
       IN  IF write_allowed(w) /\ u.raised = NoneStr
           THEN /\ work' = [work EXCEPT ![w].pms = u.rows]
                /\ todo' = [todo EXCEPT ![w] = Tail(@)]
                /\ db_lock' = w
                /\ UNCHANGED <<db, db_commits, seen, wpc>>
           ELSE RolledBack(w)
    /\ UNCHANGED <<game_map, ops>>
    /\ OtherUnchanged

\* api_admin_demo_import.py 255-262: the response; the atomic block commits
CommitImport(w) ==
    /\ wpc[w] = "import"
    /\ todo[w] = <<>>
    /\ Committed(w)
    /\ UNCHANGED <<game_map, ops>>
    /\ OtherUnchanged

\* services.py 552-581: the map, the stat rows of the map, the rosters
StartRecalc(w) ==
    /\ wpc[w] = "idle"
    /\ ops < MaxOps
    /\ ops' = ops + 1
    /\ todo' = [todo EXCEPT ![w] = SelectSeq(db.pms, LAMBDA s : s.map = game_map.id)]
    /\ work' = [work EXCEPT ![w] = db]
    /\ seen' = [seen EXCEPT ![w] = db_commits]
    /\ wpc' = [wpc EXCEPT ![w] = "recalc"]
    /\ UNCHANGED <<game_map, db, db_commits, db_lock>>
    /\ OtherUnchanged

\* services.py 582-608: one iteration of `for s in stats`
RecalcRow(w) ==
    /\ wpc[w] = "recalc"
    /\ todo[w] # <<>>
    /\ LET s == Head(todo[w])
           u == recalc_row(work[w].fp, game_map, s, roster_by_player(s.player))
       IN  IF roster_by_player(s.player) = <<>>
           THEN /\ todo' = [todo EXCEPT ![w] = Tail(@)]
                /\ UNCHANGED <<db, db_commits, db_lock, work, seen, wpc>>
           ELSE IF write_allowed(w) /\ u.raised = NoneStr
                THEN /\ work' = [work EXCEPT ![w].fp = u.rows]
                     /\ todo' = [todo EXCEPT ![w] = Tail(@)]
                     /\ db_lock' = w
                     /\ UNCHANGED <<db, db_commits, seen, wpc>>
                ELSE RolledBack(w)
    /\ UNCHANGED <<game_map, ops>>
    /\ OtherUnchanged

\* services.py 581, 610: the atomic block of recalc_map commits
CommitRecalc(w) ==
    /\ wpc[w] = "recalc"
    /\ todo[w] = <<>>
    /\ Committed(w)
    /\ UNCHANGED <<game_map, ops>>
    /\ OtherUnchanged

NextRecalc ==
    \E w \in Workers :
        \/ StartImport(w)
        \/ ImportRow(w)
        \/ CommitImport(w)
        \/ StartRecalc(w)
        \/ RecalcRow(w)
        \/ CommitRecalc(w)

SpecRecalc == InitRecalc /\ [][NextRecalc]_vars

(***************************************************************************)
(* core/signals.py: the recalculation queue. Threads write PlayerMapStats  *)
(* and Map rows inside atomic blocks; _pending is an attribute of the      *)
(* function _queue_recalc and so one object for all threads.               *)
(***************************************************************************)
MaxHooks == 2

Threads == {1, 2}
MapIds == {1, 2}

FLUSH == "_flush_recalc_queue"
RecalcHook(mid) == <<"recalc_map", mid>>

\* lines 11-21: _queue_recalc(map_id) in a thread whose callbacks are hs;
\* on_commit appends to the callbacks of the thread's open transaction
_queue_recalc(pend, hs, map_id) ==
    IF map_id = 0 THEN [pending |-> pend, hooks |-> hs]
    ELSE IF pend = None
         THEN [pending |-> Some({map_id}), hooks |-> Append(hs, FLUSH)]
         ELSE [pending |-> Some(pend[1] \cup {map_id}), hooks |-> hs]

\* lines 24-36: _flush_recalc_queue(); ids are the recalc_map calls it makes
_flush_recalc_queue(pend) ==
    IF pend = None \/ pend = Some({}) THEN [pending |-> pend, ids |-> <<>>]
    ELSE [pending |-> None, ids |-> SortedSeqOf(pend[1])]

RECURSIVE run_on_commit(_, _, _)
\* the callbacks hs of a committed transaction, in the order of registration
run_on_commit(hs, pend, out) ==
    IF hs = <<>> THEN [pending |-> pend, flush |-> out.flush, calls |-> out.calls]
    ELSE IF Head(hs) = FLUSH
         THEN LET f == _flush_recalc_queue(pend)
              IN  run_on_commit(Tail(hs), f.pending,
                                [flush |-> out.flush \o f.ids, calls |-> out.calls \o f.ids])
         ELSE run_on_commit(Tail(hs), pend,
                            [flush |-> out.flush, calls |-> Append(out.calls, Head(hs)[2])])

InitSignals ==
    /\ IdleScoring
    /\ IdleNormalizer
    /\ IdleSegmenter
    /\ IdleTeams
    /\ IdleClutch
    /\ IdleAggregate
    /\ IdleMembers
    /\ IdleRecalc
    /\ pending = None
    /\ tx = [t \in Threads |-> "none"]
    /\ hooks = [t \in Threads |-> <<>>]
    /\ queued = [t \in Threads |-> {}]
    /\ owed = {}
    /\ flush_ids = <<>>
    /\ hook_ids = <<>>
    /\ flush_due = {}

SignalsFrame ==
    UNCHANGED <<scoreVars, normVars, segVars, teamVars, clutchVars, aggVars, memVars, dbVars>>

NoCalls ==
    /\ flush_ids' = <<>>
    /\ hook_ids' = <<>>
    /\ flush_due' = {}

\* a thread enters its outermost atomic block
Begin(t) ==
    /\ tx[t] = "none"
    /\ tx' = [tx EXCEPT ![t] = "open"]
    /\ NoCalls
    /\ UNCHANGED <<pending, hooks, queued, owed>>
    /\ SignalsFrame

\* lines 39-54: _pms_saved / _pms_deleted for a row of map mid
StatsWritten(t, mid) ==
    /\ tx[t] = "open"
    /\ pending = None => Len(hooks[t]) < MaxHooks
    /\ LET q == _queue_recalc(pending, hooks[t], mid)
       IN  /\ pending' = q.pending
           /\ hooks' = [hooks EXCEPT ![t] = q.hooks]
    /\ queued' = [queued EXCEPT ![t] = @ \cup {mid}]
    /\ NoCalls
    /\ UNCHANGED <<tx, owed>>
    /\ SignalsFrame

\* lines 57-76: _map_pre_save for a stored map whose played_rounds changed or
\* not (winner_team_id is no attribute of Map: winner_changed is False)
MapSaved(t, mid, played_changed) ==
    /\ tx[t] = "open"
    /\ Len(hooks[t]) < MaxHooks
    /\ hooks' = [hooks EXCEPT ![t] =
                    IF played_changed THEN Append(@, RecalcHook(mid)) ELSE @]
    /\ NoCalls
    /\ UNCHANGED <<pending, tx, queued, owed>>
    /\ SignalsFrame

\* the atomic block exits normally: the transaction commits, then its
\* callbacks run
Commit(t) ==
    /\ tx[t] = "open"
    /\ LET r == run_on_commit(hooks[t], pending, [flush |-> <<>>, calls |-> <<>>])
       IN  /\ pending' = r.pending
           /\ flush_ids' = r.flush
           /\ hook_ids' = r.calls
           /\ owed' = (owed \cup queued[t]) \ SeqElems(r.calls)
    /\ flush_due' = owed \cup queued[t]
    /\ tx' = [tx EXCEPT ![t] = "none"]
    /\ hooks' = [hooks EXCEPT ![t] = <<>>]
    /\ queued' = [queued EXCEPT ![t] = {}]
    /\ SignalsFrame

\* the atomic block exits with an exception: the transaction is rolled back
\* and its callbacks are dropped
Rollback(t) ==
    /\ tx[t] = "open"
    /\ tx' = [tx EXCEPT ![t] = "none"]
    /\ hooks' = [hooks EXCEPT ![t] = <<>>]
    /\ queued' = [queued EXCEPT ![t] = {}]
    /\ NoCalls
    /\ UNCHANGED <<pending, owed>>
    /\ SignalsFrame

NextSignals ==
    \E t \in Threads :
        \/ Begin(t)
        \/ \E mid \in MapIds : StatsWritten(t, mid)
        \/ \E mid \in MapIds, ch \in BOOLEAN : MapSaved(t, mid, ch)
        \/ Commit(t)
        \/ Rollback(t)

SpecSignals == InitSignals /\ [][NextSignals]_vars

\* every open atomic block comes to its end, and every thread goes on to
\* serve further requests
SpecSignalsLive ==
    /\ InitSignals
    /\ [][NextSignals]_vars
    /\ \A t \in Threads : WF_vars(Commit(t) \/ Rollback(t))
    /\ \A t \in Threads : WF_vars(Begin(t))


(***************************************************************************)
(* Properties of the scoring engine (checked under SpecScoring).           *)
(***************************************************************************)
RInRange(v, lo, hi) == RLe(lo, v) /\ RLe(v, hi)

\* The raw value recomputed from the reported breakdown.
RawFromBreakdown ==
    RAdd(RMul(SumValues(breakdown.components_after_role,
                        DOMAIN breakdown.components_after_role),
              breakdown.round_factor),
         breakdown.team_win_bonus)

\* C1: for every stat record with non-negative counts, every played_rounds,
\* every role code (registered, unknown, none) and every winner/player team
\* pair, the points returned by calc_points and the breakdown's final value
\* lie in [PTS_MIN, PTS_MAX] = [-20, 60].
C1_PointsBounded ==
    spc = "returned" =>
        /\ RInRange(points, ScoringParams.PTS_MIN, ScoringParams.PTS_MAX)
        /\ RInRange(breakdown.final, ScoringParams.PTS_MIN, ScoringParams.PTS_MAX)

\* C1 witness: a call whose raw value is below PTS_MIN and is clamped to it.
C1_Witness ==
    /\ spc = "returned"
    /\ RLt(RawFromBreakdown, ScoringParams.PTS_MIN)
    /\ points = ScoringParams.PTS_MIN
    /\ breakdown.final = ScoringParams.PTS_MIN

\* C2: the round factor calc_points applies and reports is always within
\* [ROUND_MIN, ROUND_MAX] = [0.85, 1.25], for every played_rounds value
\* including 0, None, 1 and 1000.
C2_RoundFactorBounded ==
    /\ RInRange(round_factor_of(played_rounds, ScoringParams),
                ScoringParams.ROUND_MIN, ScoringParams.ROUND_MAX)
    /\ spc = "returned" =>
          /\ breakdown.round_factor = round_factor_of(played_rounds, ScoringParams)
          /\ RInRange(breakdown.round_factor,
                      ScoringParams.ROUND_MIN, ScoringParams.ROUND_MAX)

\* C2 witness: a one-round map, whose unclamped factor 0.05 is reported as 0.85.
C2_Witness ==
    /\ spc = "returned"
    /\ played_rounds = <<1>>
    /\ breakdown.round_factor = ScoringParams.ROUND_MIN

(***************************************************************************)
(* Properties of _normalize_winner (checked under SpecNormalizer).         *)
(***************************************************************************)
\* The side the policy of the specification assigns to a raw value: labels
\* T / CT in any letter case, the codes 2 and 3 (numbers or digit strings),
\* the legacy codes 0 and 1, and unknown for everything else.
ClaimedSide(w) ==
    CASE w.kind = "str" ->
            LET s == str_upper(str_strip(w.val))
            IN  IF s = <<"T">> THEN Some(T_TEAM)
                ELSE IF s = <<"C", "T">> THEN Some(CT_TEAM)
                ELSE IF s # <<>> /\ \A i \in 1..Len(s) : IsAsciiDigit(s[i])
                THEN (CASE DecimalValue(s) \in {0, 2} -> Some(T_TEAM)
                        [] DecimalValue(s) \in {1, 3} -> Some(CT_TEAM)
                        [] OTHER -> None)
                ELSE None
      [] w.kind = "int" \/ (w.kind = "float" /\ w.val[2] = 1) ->
            (CASE w.val[1] \in {0, 2} -> Some(T_TEAM)
               [] w.val[1] \in {1, 3} -> Some(CT_TEAM)
               [] OTHER -> None)
      [] OTHER -> None

\* C6: _normalize_winner is total and never raises: 'T'/'CT' in any letter
\* case give the T/CT side, the codes 2 and 3 (numbers or digit strings) give
\* T and CT, the legacy codes 0 and 1 give T and CT, and every other input
\* (None, NaN, any other string, any other number, an unparseable object)
\* gives None.
C6_NormalizeTotal ==
    npc \in {"returned", "raised"} =>
        /\ ~w_out.raised
        /\ w_out.value = ClaimedSide(w_raw)

(***************************************************************************)
(* Properties of the round segmentation (checked under SpecSegmenter).     *)
(***************************************************************************)
StartTicks == SeqRange(freeze_end.rows)
EndTicks == { round_end.rows[i].tick : i \in 1..Len(round_end.rows) }
LaterEnds(s) == { e \in EndTicks : e > s }

\* the k smallest elements of S
RECURSIVE SmallestK(_, _)
SmallestK(S, k) ==
    IF k = 0 \/ S = {} THEN {}
    ELSE LET m == SetMin(S) IN {m} \cup SmallestK(S \ {m}, k - 1)

NormalizerRaised == dpc = "raised" /\ derr = "ValueError"

\* the start ticks the loop has dealt with in the current state
ProcessedStarts ==
    IF dpc = "segmented" THEN StartTicks
    ELSE IF NormalizerRaised THEN SmallestK(StartTicks, seg_i)
    ELSE SmallestK(StartTicks, seg_i - 1)

\* C3: a round is emitted for start tick s iff some end tick is strictly
\* greater than s; its end tick is the smallest such end tick; rounds come in
\* increasing start-tick order, indexed 0..n-1 without gap and index-aligned
\* with the winners; a start with no later end is dropped without an error
\* and without a round with a null end.
C3_RoundPairing ==
    /\ (dpc \in {"segment", "segmented"} \/ NormalizerRaised) =>
          /\ \A s \in ProcessedStarts :
                (\E i \in 1..Len(rounds) : rounds[i][1] = s) <=> LaterEnds(s) # {}
          /\ \A i \in 1..Len(rounds) :
                /\ rounds[i][1] \in ProcessedStarts
                /\ LaterEnds(rounds[i][1]) # {}
                /\ rounds[i][2] = SetMin(LaterEnds(rounds[i][1]))
          /\ \A i, j \in 1..Len(rounds) : i < j => rounds[i][1] < rounds[j][1]
          /\ ~NormalizerRaised => Len(winners) = Len(rounds)
    /\ dpc = "segmented" =>
          /\ seg_result.n_rounds = Len(rounds)
          /\ Len(rounds) = Cardinality({ s \in StartTicks : LaterEnds(s) # {} })
    /\ dpc = "raised" =>
          \/ derr = "RuntimeError" /\ rounds = <<>>
          \/ /\ NormalizerRaised
             /\ rounds # <<>>
             /\ _normalize_winner(winner_at(re_df, rounds[Len(rounds)][2])).raised

\* C3 witness: a finished segmentation that emitted a round and dropped a
\* later start that no end tick follows.
C3_Witness ==
    /\ dpc = "segmented"
    /\ Len(rounds) >= 1
    /\ \E s \in StartTicks : LaterEnds(s) = {} /\ s > rounds[Len(rounds)][1]

\* C4 (as claimed): for every pair of consecutive emitted rounds i and i+1,
\* start_tick[i] < end_tick[i] <= start_tick[i+1].
C4_NonOverlapping ==
    \A i \in 1..(Len(rounds) - 1) :
        rounds[i][1] < rounds[i][2] /\ rounds[i][2] <= rounds[i + 1][1]

\* C4 (amended): every emitted round has start_tick < end_tick; for consecutive
\* rounds the start ticks strictly increase and the end ticks do not decrease;
\* end_tick[i] <= start_tick[i+1] holds exactly when an end tick lies in
\* (start_tick[i], start_tick[i+1]]; otherwise both rounds end at the same tick.
C4_OrderedRounds ==
    /\ \A i \in 1..Len(rounds) : rounds[i][1] < rounds[i][2]
    /\ \A i \in 1..(Len(rounds) - 1) :
          /\ rounds[i][1] < rounds[i + 1][1]
          /\ rounds[i][2] <= rounds[i + 1][2]
          /\ (rounds[i][2] <= rounds[i + 1][1]) <=>
                (\E e \in EndTicks : rounds[i][1] < e /\ e <= rounds[i + 1][1])
          /\ rounds[i][2] > rounds[i + 1][1] => rounds[i][2] = rounds[i + 1][2]

\* C4 witness: two consecutive emitted rounds that do not overlap.
C4_Witness ==
    /\ dpc = "segmented"
    /\ Len(rounds) >= 2
    /\ rounds[1][2] <= rounds[2][1]

InputLacksEvents ==
    \/ freeze_end.missing \/ freeze_end.rows = <<>>
    \/ round_end.missing \/ round_end.rows = <<>>

\* C5: if the round_freeze_end event set or the round_end event set is absent
\* or empty, the extraction aborts with an error and returns no result at all.
C5_MissingEventsAbort ==
    (InputLacksEvents /\ dpc \notin {"idle", "parse"}) =>
        /\ dpc = "raised"
        /\ derr = "RuntimeError"
        /\ rounds = <<>>
        /\ winners = <<>>
        /\ seg_result = NoResult

\* C5 witness: round starts are present, the round_end table is empty, and the
\* extraction has aborted.
C5_Witness ==
    /\ dpc = "raised"
    /\ ~freeze_end.missing /\ freeze_end.rows # <<>>
    /\ ~round_end.missing /\ round_end.rows = <<>>

(***************************************************************************)
(* Properties of the team-based score (checked under SpecTeams).           *)
(***************************************************************************)
\* The rounds among the first k whose winner side carries the name nm,
\* counted from winners and round_side_team alone.
NamedRounds(nm, k) ==
    { i \in 0..(k - 1) :
        /\ winners[i + 1] # None
        /\ side_name(round_side_team, i, winners[i + 1][1]) = nm }

NamedWins(nm) == Cardinality(NamedRounds(nm, Len(winners)))

StrictTops ==
    { nm \in TeamNames : \A o \in TeamNames \ {nm} : NamedWins(nm) > NamedWins(o) }

NoNamedRound == \A nm \in TeamNames : NamedWins(nm) = 0

\* C7 as stated: winner_team is the team whose win count is strictly higher
\* than every other team's, and it is "DRAW" whenever the top counts are tied,
\* the map without any round attributed to a named team included.
C7_WinnerOrDraw ==
    tpc = "done" =>
        IF StrictTops # {} THEN winner_team \in StrictTops ELSE winner_team = "DRAW"

\* C7, amended: winner_team is the team with the strictly highest win count;
\* it is "DRAW" when the top count is shared by teams that won a round; it is
\* None when no round was attributed to a named team.
C7_WinnerDrawOrNone ==
    tpc = "done" =>
        IF NoNamedRound THEN winner_team = NoneStr
        ELSE IF StrictTops # {} THEN winner_team \in StrictTops
        ELSE winner_team = "DRAW"

\* C7: the map of the example is reached: Alpha 2 - Beta 1 gives "Alpha".
C7_Witness ==
    /\ tpc = "done"
    /\ NamedWins("Alpha") = 2
    /\ NamedWins("Beta") = 1
    /\ team_score = ("Alpha" :> 2) @@ ("Beta" :> 1)
    /\ winner_team = "Alpha"

SideOf(d, nm, key) == IF nm \in DOMAIN d THEN d[nm][key] ELSE 0

BucketNames == {"first_half", "second_half", "overtime"}

SumOver(d, S) ==
    LET f[X \in SUBSET S] ==
            IF X = {} THEN 0
            ELSE LET k == CHOOSE k \in X : TRUE IN Get(d, k) + f[X \ {k}]
    IN  f[S]

\* per team: the total equals the two side counters and the three buckets
TallyBalanced ==
    \A nm \in TeamNames \cup DOMAIN team_score :
        /\ Get(team_score, nm)
             = SideOf(team_side_score, nm, "T") + SideOf(team_side_score, nm, "CT")
        /\ Get(team_score, nm)
             = Get(half_score.first_half, nm) + Get(half_score.second_half, nm)
               + Get(half_score.overtime, nm)

TallyKeysNamed ==
    /\ DOMAIN team_score \subseteq TeamNames
    /\ DOMAIN team_side_score \subseteq TeamNames
    /\ \A b \in BucketNames : DOMAIN half_score[b] \subseteq TeamNames

\* what one iteration of the counting loop does to the tallies
CountStepConserves ==
    (tpc = "count" /\ tw_i' = tw_i + 1) =>
        LET w == winners[tw_i + 1]
            d(nm) == Get(team_score', nm) - Get(team_score, nm)
            dT(nm) == SideOf(team_side_score', nm, "T") - SideOf(team_side_score, nm, "T")
            dCT(nm) == SideOf(team_side_score', nm, "CT") - SideOf(team_side_score, nm, "CT")
            dB(b, nm) == Get(half_score'[b], nm) - Get(half_score[b], nm)
            gained == { nm \in TeamNames : d(nm) # 0 }
        IN  /\ Cardinality(gained) <= 1
            /\ \A nm \in TeamNames :
                  /\ d(nm) \in {0, 1}
                  /\ dT(nm) \in {0, 1} /\ dCT(nm) \in {0, 1}
                  /\ dT(nm) + dCT(nm) = d(nm)
                  /\ \A b \in BucketNames : dB(b, nm) \in {0, 1}
                  /\ dB("first_half", nm) + dB("second_half", nm)
                       + dB("overtime", nm) = d(nm)
                  /\ d(nm) = 1 =>
                        /\ w # None
                        /\ side_name(round_side_team, tw_i, w[1]) = nm
                        /\ (dT(nm) = 1) <=> (w[1] = T_TEAM)
                        /\ dB(bucket_of(tw_i, half_split, ot_start), nm) = 1

\* C8: each round increments at most one team's win count, and then exactly
\* one side counter and exactly one half bucket of that team; the team totals
\* sum to at most the round count, and per team the total equals T + CT wins
\* and first_half + second_half + overtime wins.
C8_Conservation ==
    /\ [](tpc \in {"count", "done"} =>
            /\ TallyKeysNamed
            /\ TallyBalanced
            /\ SumOver(team_score, TeamNames) <= tw_i
            /\ tw_i <= seg_result.n_rounds
            /\ \A nm \in TeamNames :
                  Get(team_score, nm) = Cardinality(NamedRounds(nm, tw_i)))
    /\ [][CountStepConserves]_vars

\* C8: a finished map where one team won on both sides and in all three
\* buckets.
C8_Witness ==
    /\ tpc = "done"
    /\ \E nm \in TeamNames :
          /\ SideOf(team_side_score, nm, "T") >= 1
          /\ SideOf(team_side_score, nm, "CT") >= 1
          /\ Get(half_score.first_half, nm) = 1
          /\ Get(half_score.second_half, nm) = 1
          /\ Get(half_score.overtime, nm) = 1
          /\ team_score[nm] = seg_result.n_rounds

\* a finished map with an unattributed round: the totals stay below the
\* round count
UnattributedRoundReached ==
    /\ tpc = "done"
    /\ SumOver(team_score, TeamNames) = 2
    /\ seg_result.n_rounds = 3

(***************************************************************************)
(* Properties of the clutch detection (checked under SpecClutch).          *)
(***************************************************************************)
\* the victims of the first k death events that are members of the round
Applied(k) == { dr[j] : j \in 1..k } \cap DOMAIN tm

\* the players of a side without a death event among the first k
AliveAfter(side, k) == members(tm, side) \ Applied(k)

Opp(side) == IF side = T_TEAM THEN CT_TEAM ELSE T_TEAM

Credits(sid) ==
    stats[sid].cl_1v2 + stats[sid].cl_1v3 + stats[sid].cl_1v4 + stats[sid].cl_1v5

Credited == { sid \in DOMAIN stats : Credits(sid) > 0 }

TierCount(sid, x) ==
    IF x = 2 THEN stats[sid].cl_1v2
    ELSE IF x = 3 THEN stats[sid].cl_1v3
    ELSE IF x = 4 THEN stats[sid].cl_1v4
    ELSE IF x = 5 THEN stats[sid].cl_1v5
    ELSE 0

\* side S is reduced to its last survivor by event k with x opponents alive
ReducedToOne(side, k, x) ==
    /\ k \in 1..Len(dr)
    /\ Cardinality(AliveAfter(side, k - 1)) = 2
    /\ Cardinality(AliveAfter(side, k)) = 1
    /\ Cardinality(AliveAfter(Opp(side), k)) = x

\* C9: a round grants at most one clutch credit (one tier, one player), and
\* only to the recorded last-survivor candidate of the winner side, who has
\* no applied death event in the round and is still in that side's alive set.
C9_ClutchExclusive ==
    /\ cpc # "done" => Credited = {}
    /\ cpc = "done" =>
          /\ Cardinality(Credited) <= 1
          /\ \A sid \in Credited :
                /\ Credits(sid) = 1
                /\ wteam # None
                /\ candidate[wteam[1]] # None
                /\ candidate[wteam[1]][1] = sid
                /\ TierCount(sid, candidate[wteam[1]][2]) = 1
                /\ tm[sid] = wteam[1]
                /\ sid \notin Applied(Len(dr))
                /\ sid \in (IF wteam[1] = T_TEAM THEN alive_t ELSE alive_ct)

\* C9: a finished round of three death events where CT was reduced to one
\* survivor against two, won, and the survivor alone is credited a 1v2.
C9_Witness ==
    /\ cpc = "done"
    /\ wteam = Some(CT_TEAM)
    /\ Len(dr) = 3
    /\ \E k \in 1..Len(dr) : ReducedToOne(CT_TEAM, k, 2)
    /\ \E sid \in members(tm, CT_TEAM) : stats[sid].cl_1v2 = 1 /\ Credited = {sid}

\* a finished round where the winner side's candidate died later: no credit
CandidateDiedReached ==
    /\ cpc = "done"
    /\ wteam # None
    /\ candidate[wteam[1]] # None
    /\ candidate[wteam[1]][1] \in Applied(Len(dr))
    /\ Credited = {}

\* C10: when death events reduce side S to one survivor p with x opponents
\* alive, 2 <= x <= 5, S wins the round and p has no death event in it, then
\* p is credited exactly one cl_1v{x} and nobody else any clutch.
C10_ClutchCredited ==
    cpc = "done" =>
        \A side \in {T_TEAM, CT_TEAM}, k \in 1..Len(dr), x \in 2..5 :
            (ReducedToOne(side, k, x) /\ wteam = Some(side)) =>
                \A p \in AliveAfter(side, k) :
                    p \notin Applied(Len(dr)) =>
                        /\ TierCount(p, x) = 1
                        /\ Credits(p) = 1
                        /\ Credited = {p}

\* C10: the round of the example: T is reduced to one survivor against three
\* CT players, T wins, the survivor holds exactly one cl_1v3.
C10_Witness ==
    /\ cpc = "done"
    /\ wteam = Some(T_TEAM)
    /\ \E k \in 1..Len(dr) :
          /\ ReducedToOne(T_TEAM, k, 3)
          /\ \E p \in AliveAfter(T_TEAM, Len(dr)) :
                /\ stats[p].cl_1v3 = 1
                /\ Credited = {p}

(***************************************************************************)
(* Further properties of the scoring engine (checked under SpecScoring).   *)
(***************************************************************************)
ClaimedAdrStep(adr) ==
    IF adr = None THEN RInt(0)
    ELSE IF RGe(adr, RInt(85)) THEN RInt(3)
    ELSE IF RGe(adr, RInt(70)) THEN RInt(1)
    ELSE IF RLt(adr, RInt(50)) THEN RInt(-1)
    ELSE RInt(0)

ClaimedRatingStep(rt) ==
    IF rt = None THEN RInt(0)
    ELSE IF RGe(rt, Rat(120, 100)) THEN RInt(4)
    ELSE IF RGe(rt, RInt(1)) THEN RInt(2)
    ELSE IF RLt(rt, Rat(90, 100)) THEN RInt(-2)
    ELSE RInt(0)

ClaimedComponents(s) ==
    [kills |-> RInt(s.kills),
     assists |-> Rat(s.assists, 2),
     deaths |-> Rat(-s.deaths, 2),
     opening_pos |-> Rat(3 * s.opening_kills, 2),
     opening_neg |-> RInt(-s.opening_deaths),
     multi |-> RInt(2 * s.mk_3k + 5 * s.mk_4k + 10 * s.mk_5k),
     clutch |-> RInt(3 * s.cl_1v2 + 5 * s.cl_1v3 + 8 * s.cl_1v4 + 15 * s.cl_1v5),
     adr_rt |-> RAdd(ClaimedAdrStep(s.adr), ClaimedRatingStep(s.rating2)),
     bonus |-> RInt(0)]

\* the call of example scenario 2
IsScenario2 ==
    /\ stat.kills = 20 /\ stat.deaths = 10 /\ stat.assists = 5
    /\ stat.opening_kills = 3 /\ stat.opening_deaths = 1
    /\ stat.mk_3k = 0 /\ stat.mk_4k = 1 /\ stat.mk_5k = 0
    /\ stat.cl_1v2 = 1 /\ stat.cl_1v3 = 0 /\ stat.cl_1v4 = 0 /\ stat.cl_1v5 = 0
    /\ stat.adr = RInt(90) /\ stat.rating2 = Rat(125, 100)
    /\ played_rounds = <<24>>
    /\ role_badge = NoneStr
    /\ winner_team_id = None

\* C11: the pre-role component map equals the weighted counts with the default
\* weights (kills x1, assists x0.5, deaths x-0.5, opening kills x1.5, opening
\* deaths x-1, multi 2/5/10, clutch 3/5/8/15, adr_rt = ADR step + rating step,
\* bonus 0); for scenario 2 the components sum to 36.0, the round factor is
\* 1.2 and the points are 43.2.
C11_ComponentsWeighted ==
    spc = "returned" =>
        /\ breakdown.components_before = ClaimedComponents(stat)
        /\ IsScenario2 =>
              /\ SumValues(breakdown.components_before, ComponentNames) = RInt(36)
              /\ breakdown.round_factor = Rat(12, 10)
              /\ points = Rat(432, 10)
              /\ breakdown.final = Rat(432, 10)

\* C11: scenario 2 has been scored.
C11_Witness ==
    /\ spc = "returned"
    /\ IsScenario2
    /\ points = Rat(432, 10)

\* a scored record with adr exactly 85 and rating2 exactly 1.20
StepsReached ==
    /\ spc = "returned"
    /\ stat.adr = RInt(85) /\ stat.rating2 = Rat(120, 100)
    /\ breakdown.components_before.adr_rt = RInt(7)

NoRoleCodes == {NoneStr, ""}

\* the same call with role None
NoRoleCall ==
    calc_points(stat, played_rounds, winner_team_id, player_team_id, NoneStr,
                ScoringParams)

\* C12: with a role code that is not in the registry calc_points returns the
\* points and the components_after_role of the call with role None, and the
\* role record of the breakdown carries a warning; with role None or "" the
\* components pass through unchanged and there is no warning.
C12_UnknownRolePassThrough ==
    spc = "returned" =>
        /\ role_badge \notin ROLES \cup NoRoleCodes =>
              /\ points = NoRoleCall.points
              /\ breakdown.final = NoRoleCall.breakdown.final
              /\ breakdown.components_after_role
                   = NoRoleCall.breakdown.components_after_role
              /\ breakdown.components_after_role = ClaimedComponents(stat)
              /\ breakdown.role.warning = "unknown_role"
              /\ breakdown.role.warning # NoneStr
              /\ breakdown.role.effects = <<>>
        /\ role_badge \in NoRoleCodes =>
              /\ breakdown.components_after_role = breakdown.components_before
              /\ breakdown.components_after_role = ClaimedComponents(stat)
              /\ breakdown.role.warning = NoneStr
              /\ breakdown.role.effects = <<>>

\* C12: the call of example scenario 3: no kills, role "GHOST", a warning.
C12_Witness ==
    /\ spc = "returned"
    /\ role_badge = "GHOST"
    /\ stat.kills = 0
    /\ stat.played_rounds = None
    /\ breakdown.role.warning = "unknown_role"
    /\ breakdown.components_after_role = breakdown.components_before

(***************************************************************************)
(* Properties of the divisions (checked under SpecDivisors).               *)
(***************************************************************************)
RoundNormalizedRoles == {"CLUTCH_MINISTER", "MULTI_FRAGGER", "SUPPORT", "BAITER",
                         "ENTRY_FRAGGER", "GRENADER"}

\* the claimed divisor of a player's damage per round
ClaimedDivisor(sid) ==
    IF stats[sid].rounds_played > 0 THEN stats[sid].rounds_played
    ELSE seg_result.n_rounds

\* C13: no division by zero: every player record that the extraction creates
\* has a damage-per-round divisor of at least 1, also with rounds_played = 0
\* (fallback to the round count of the map), and a defined adr (0.0 without
\* damage); HS_MACHINE uses 0.0 as the headshot percentage when kills = 0; a
\* role that divides by its round factor divides by at least 0.85, also
\* when played_rounds is 0 or missing.
C13_NoZeroDivision ==
    /\ apc # "ZeroDivisionError"
    /\ apc # "idle" =>
          \A sid \in DOMAIN stats :
              /\ ClaimedDivisor(sid) >= 1
              /\ apc = "done" =>
                    /\ stats[sid].adr
                         = RDiv(dmg_of(total_dmg, sid), RInt(ClaimedDivisor(sid)))
                    /\ stats[sid].adr[2] > 0
                    /\ dmg_of(total_dmg, sid) = RInt(0) => stats[sid].adr = RInt(0)
    /\ spc = "returned" =>
          /\ \A k \in ComponentNames : breakdown.components_after_role[k][2] > 0
          /\ (role_badge = "HS_MACHINE" /\ stat.kills = 0) =>
                breakdown.role.effects[1].value = RInt(0)
          /\ role_badge \in RoundNormalizedRoles =>
                /\ RGe(_round_factor(stat), Rat(85, 100))
                /\ RGe(breakdown.role.effects[1].round_factor, Rat(85, 100))
                /\ breakdown.role.effects[1].value[2] > 0

\* C13: a finalized player record that was created by a death row only: no
\* round played, the divisor is the round count, adr is 0.0.
C13_Witness ==
    /\ apc = "done"
    /\ seg_result.n_rounds = 1
    /\ \E sid \in DOMAIN stats :
          /\ stats[sid].rounds_played = 0
          /\ stats[sid].deaths = 1
          /\ stats[sid].adr = RInt(0)

\* a role call whose stat record has played_rounds = 0: the role divides by 1.0
ZeroRoundsRoleReached ==
    /\ spc = "returned"
    /\ stat.played_rounds = <<0>>
    /\ role_badge = "SUPPORT"
    /\ breakdown.role.effects[1].round_factor = RInt(1)

\* a HS_MACHINE call without kills
ZeroKillsHsReached ==
    /\ spc = "returned"
    /\ stat.kills = 0
    /\ role_badge = "HS_MACHINE"
    /\ breakdown.role.effects[1].value = RInt(0)

\* a demo without any round keeps stats empty
NoRoundNoPlayer ==
    (apc # "idle" /\ seg_result.n_rounds = 0) => DOMAIN stats = {}

\* a finalized record with damage
DamageReached ==
    /\ apc = "done"
    /\ \E sid \in DOMAIN stats : stats[sid].adr = RInt(50)

(***************************************************************************)
(* Properties of the team bonus (checked under SpecScoring).               *)
(***************************************************************************)
\* the same call without a known winner
NoWinnerCall ==
    calc_points(stat, played_rounds, None, player_team_id, role_badge, ScoringParams)

BonusGranted == breakdown.team_win_bonus = RInt(2)

BonusEffect_OnFinal ==
    /\ breakdown.team_win_bonus \in {RInt(0), RInt(2)}
    /\ RGe(breakdown.final, NoWinnerCall.breakdown.final)
    /\ RLe(RSub(breakdown.final, NoWinnerCall.breakdown.final), breakdown.team_win_bonus)
    /\ ~BonusGranted => points = NoWinnerCall.points

IsRecalcMapCall ==
    /\ stat = recalc_map_stat_dict(stat)
    /\ winner_team_id = None
    /\ role_badge # ""

\* the stat record carries no round count of its own or the one of the call
CoherentRounds == stat.played_rounds \in {None, played_rounds}

RoleRoundFactor == breakdown.role.effects[1].round_factor

\* C15 as stated: for every call with a role that normalizes its metric per
\* round, the round factor in the role's effect detail equals the round factor
\* of the breakdown, also for the calls that recalc_map issues.
C15_RoleFactorIsEngineFactor ==
    (/\ spc = "returned"
     /\ role_badge \in RoundNormalizedRoles
     /\ CoherentRounds \/ IsRecalcMapCall)
        => RoleRoundFactor = breakdown.round_factor

\* C15: the two factors agree when the stat record carries the round count of
\* the call.
RoleFactorAgreesWhenPassed ==
    (/\ spc = "returned"
     /\ role_badge \in RoundNormalizedRoles
     /\ stat.played_rounds # None
     /\ stat.played_rounds = played_rounds)
        => RoleRoundFactor = breakdown.round_factor

\* C15: a call of recalc_map for a SUPPORT player on a 24-round map: the engine
\* scales by 1.2, the role by 1.0.
RecalcMapFactorsDiffer ==
    /\ spc = "returned"
    /\ IsRecalcMapCall
    /\ role_badge = "SUPPORT"
    /\ played_rounds = <<24>>
    /\ breakdown.round_factor = Rat(12, 10)
    /\ RoleRoundFactor = RInt(1)

(***************************************************************************)
(* The frame of apply_role (checked under SpecScoring).                    *)
(***************************************************************************)
RoundedComponents(c) == [k \in DOMAIN c |-> Round3(c[k])]

AppliedRole(code) == apply_role(code, components_before(stat, ScoringParams), stat)

RoleFrame(code) ==
    LET ar == AppliedRole(code)
    IN  /\ ar.input = components_before(stat, ScoringParams)
        /\ ar.stat = stat
        /\ DOMAIN ar.comp = DOMAIN components_before(stat, ScoringParams)

\* the same call without a role
NoRoleSameCall ==
    calc_points(stat, played_rounds, winner_team_id, player_team_id, NoneStr,
                ScoringParams)

SameBeforeAsWithoutRole ==
    breakdown.components_before = NoRoleSameCall.breakdown.components_before

\* C16: for every registered role and for the none / unknown-role path,
\* apply_role leaves the component map it was given and the stat record
\* unchanged and returns a map with exactly the keys of its input; hence
\* breakdown.components_before is the same for every role given the same stat
\* and params.
C16_ApplyRoleFrame ==
    /\ [](/\ RoleFrame(role_badge)
          /\ spc = "returned" =>
                /\ breakdown.components_before
                      = RoundedComponents(components_before(stat, ScoringParams))
                /\ DOMAIN breakdown.components_after_role = ComponentNames
                /\ DOMAIN breakdown.components_before = ComponentNames
                /\ SameBeforeAsWithoutRole)
    /\ [][stat' = stat]_vars

\* C16: a SUPPORT call whose role changed the bonus pocket of the returned map
\* while components_before still shows the pocket empty.
C16_Witness ==
    /\ spc = "returned"
    /\ role_badge = "SUPPORT"
    /\ breakdown.components_before["bonus"] = RInt(0)
    /\ breakdown.components_after_role["bonus"] # RInt(0)
    /\ breakdown.role.effects[1].before = RInt(0)

(***************************************************************************)
(* The round factor as a function of played_rounds (checked under          *)
(* SpecScoring).                                                           *)
(***************************************************************************)
\* clamp(n / ROUND_BASE, ROUND_MIN, ROUND_MAX) with the default parameters
ClaimedFactor(n) == clamp(Rat(n, 20), Rat(85, 100), Rat(125, 100))

\* the factor calc_points applies on a map of n rounds
FactorAt(n) == round_factor_of(Some(n), ScoringParams)

NonDecreasingFrom(lo) ==
    \A q \in lo..played_rounds[1] : RLe(Round3(FactorAt(q)), breakdown.round_factor)

\* C17 as stated: the applied round factor equals
\* clamp(played_rounds / ROUND_BASE, ROUND_MIN, ROUND_MAX) for every
\* played_rounds >= 0, played_rounds = 0 included (0.85), and is non-decreasing
\* in played_rounds.
C17_FactorIsClampedRatio ==
    (spc = "returned" /\ played_rounds # None) =>
        /\ breakdown.round_factor = Round3(ClaimedFactor(played_rounds[1]))
        /\ NonDecreasingFrom(0)

\* C17, amended: the applied round factor equals
\* clamp(played_rounds / ROUND_BASE, ROUND_MIN, ROUND_MAX) for every
\* played_rounds >= 1 and is non-decreasing over played_rounds >= 1; for
\* played_rounds = 0, as for None, it is 1.0.
C17_FactorIsClampedRatioFromOne ==
    spc = "returned" =>
        /\ (played_rounds # None /\ played_rounds[1] >= 1) =>
              /\ breakdown.round_factor = Round3(ClaimedFactor(played_rounds[1]))
              /\ NonDecreasingFrom(1)
        /\ played_rounds \in {None, <<0>>} => breakdown.round_factor = RInt(1)

\* C17: a call for a map of 0 rounds, scaled by 1.0 and not by 0.85, and so
\* by more than a map of 1 round.
C17_Witness ==
    /\ spc = "returned"
    /\ played_rounds = <<0>>
    /\ breakdown.round_factor = RInt(1)
    /\ ClaimedFactor(0) = Rat(85, 100)
    /\ RLt(FactorAt(1), breakdown.round_factor)

\* a call strictly between the clamps: 23 rounds give 1.15
UnclampedFactorReached ==
    /\ spc = "returned"
    /\ played_rounds = <<23>>
    /\ breakdown.round_factor = Rat(115, 100)

(***************************************************************************)
(* Half and overtime boundaries (checked under SpecLongMaps).              *)
(***************************************************************************)
NameAt(i, side) == side_name(round_side_team, i, side)

BothNamed(i) == Truthy(NameAt(i, T_TEAM)) /\ Truthy(NameAt(i, CT_TEAM))

RoundIndexes == 0..(seg_result.n_rounds - 1)

\* the earliest round where both sides have a resolved team name
ClaimedBase == MinOrNone({ i \in RoundIndexes : BothNamed(i) })

SwappedAt(i, base) ==
    /\ NameAt(i, T_TEAM) = NameAt(base, CT_TEAM)
    /\ NameAt(i, CT_TEAM) = NameAt(base, T_TEAM)

AtBaseSides(i, base) ==
    /\ NameAt(i, T_TEAM) = NameAt(base, T_TEAM)
    /\ NameAt(i, CT_TEAM) = NameAt(base, CT_TEAM)

\* the first later round where the same two teams occupy the opposite sides
ClaimedSecondHalf ==
    LET base == ClaimedBase
    IN  IF base = None THEN None
        ELSE MinOrNone({ i \in RoundIndexes : i > base[1] /\ SwappedAt(i, base[1]) })

ClaimedHalfBoundary ==
    LET second == ClaimedSecondHalf
    IN  IF second = None THEN 12 ELSE second[1]

\* the first round after the second-half start where the sides are the base
\* sides again
ClaimedOvertime ==
    LET base == ClaimedBase
        half == ClaimedHalfBoundary
    IN  IF base = None THEN None
        ELSE MinOrNone({ i \in RoundIndexes : i > half /\ AtBaseSides(i, base[1]) })

\* the bucket of every round
ClaimedBuckets ==
    LET half == ClaimedHalfBoundary
        ot == ClaimedOvertime
    IN  [i \in RoundIndexes |->
            IF i < half THEN "first_half"
            ELSE IF ot # None /\ i >= ot[1] THEN "overtime"
            ELSE "second_half"]

\* C18: the base assignment is that of the earliest round where both sides
\* have a resolved name; the second half starts at the first later round where
\* the same two teams occupy the opposite sides; overtime starts at the first
\* round after the second-half start where the sides are the base sides again;
\* without a detected swap the half boundary is round 12.  A round win counts
\* in first_half iff its index is below the half boundary, in overtime iff it
\* is at or after the overtime start, and in second_half otherwise.
C18_HalfBoundaries ==
    tpc \in {"count", "done"} =>
        LET base == ClaimedBase
            second == ClaimedSecondHalf
            ot == ClaimedOvertime
            bucket == ClaimedBuckets
        IN  /\ base_idx = base
            /\ base # None =>
                  /\ base_t = NameAt(base[1], T_TEAM)
                  /\ base_ct = NameAt(base[1], CT_TEAM)
            /\ second # None => half_split = second[1]
            /\ ot # None => ot_start = ot[1]
            /\ \A nm \in TeamNames :
                  LET won == NamedRounds(nm, tw_i)
                  IN  \A b \in BucketNames :
                         Get(half_score[b], nm)
                             = Cardinality({ i \in won : bucket[i] = b })

\* C18: a finished map whose sides swap at round 12 and swap back at round 13,
\* with wins in all three buckets.
C18_Witness ==
    /\ tpc = "done"
    /\ ClaimedBase = Some(0)
    /\ ClaimedSecondHalf = Some(12)
    /\ ClaimedOvertime = Some(13)
    /\ Get(half_score.first_half, "Alpha") = 12
    /\ Get(half_score.second_half, "Beta") = 1
    /\ Get(half_score.overtime, "Alpha") = seg_result.n_rounds - 13

\* a finished map without a base assignment: rounds from 12 on are second half
NoBaseDefaultReached ==
    /\ tpc = "done"
    /\ ClaimedBase = None
    /\ Get(half_score.first_half, "Alpha") = 12
    /\ Get(half_score.second_half, "Alpha") >= 1

\* a finished map with a swap at round 1 and the return to the base sides at
\* round 13
EarlySwapReached ==
    /\ tpc = "done"
    /\ ClaimedSecondHalf = Some(1)
    /\ ClaimedOvertime = Some(13)
    /\ half_split = 1
    /\ ot_start = 13

NoOvertimeWins == \A nm \in TeamNames : Get(half_score.overtime, nm) = 0

\* C19 as stated: if no round after the base round shows the two base teams
\* on swapped sides, no round win is counted in the overtime bucket.
C19_NoSwapNoOvertime ==
    (tpc \in {"count", "done"} /\ ClaimedSecondHalf = None) => NoOvertimeWins

\* C19: a finished map of 14 rounds with Alpha on T and Beta on CT throughout:
\* the win of round 13 is in the overtime bucket.
NoSwapOvertimeReached ==
    /\ tpc = "done"
    /\ seg_result.n_rounds = 14
    /\ \A i \in RoundIndexes : round_side_team[i + 1] = AB
    /\ half_split = 12
    /\ ot_start = 13
    /\ Get(half_score.overtime, "Alpha") = 1

\* C19: without a swap, overtime wins need a round beyond index 12
NoSwapShortMapNoOvertime ==
    (/\ tpc \in {"count", "done"}
     /\ ClaimedSecondHalf = None
     /\ seg_result.n_rounds <= 13) => NoOvertimeWins

(***************************************************************************)
(* The clutch candidate of a side (checked under SpecClutch).              *)
(***************************************************************************)
\* side S has exactly one survivor and the other side 2 to 5 after the first
\* j death events
LastAgainstMany(side, j) ==
    /\ Cardinality(AliveAfter(side, j)) = 1
    /\ Cardinality(AliveAfter(Opp(side), j)) \in 2..5

\* the candidate of the first of the instants J
FirstCandidate(side, J) ==
    LET first == MinOrNone({ j \in J : LastAgainstMany(side, j) })
    IN  IF first = None THEN None
        ELSE <<Last(AliveAfter(side, first[1])),
               Cardinality(AliveAfter(Opp(side), first[1]))>>

\* C20 as stated: the candidate of a side is recorded once per round, with the
\* number of opposing players alive at the instant at which that side first
\* has exactly one survivor while the opposing side has 2 to 5 alive (the
\* round start being the first instant), and is never replaced afterwards.
C20_CandidateAtFirstInstant ==
    cpc = "done" =>
        \A side \in {T_TEAM, CT_TEAM} :
            candidate[side] = FirstCandidate(side, 0..Len(dr))

\* the instants at which lines 329-339 look at the alive sets: after each of
\* the first k death events whose victim is a member of the round
CheckedInstants(k) == { j \in 1..k : dr[j] \in DOMAIN tm }

\* C20: among the instants after the death event of a member, the recorded
\* candidate is that of the first instant, at every step of the round.
CandidateAtFirstInstantAfterDeath ==
    cpc \in {"deaths", "done"} =>
        \A side \in {T_TEAM, CT_TEAM} :
            candidate[side] = FirstCandidate(side, CheckedInstants(ev_i - 1))

\* C20: a recorded candidate is never replaced or changed
CandidateNeverReplaced ==
    [][\A side \in {T_TEAM, CT_TEAM} :
          candidate[side] # None => candidate'[side] = candidate[side]]_vars

\* C20: T has one member against three CT players from the round start; all
\* three die, T wins, and the recorded count is 2: the credit is a cl_1v2.
LoneStarterUndercounted ==
    /\ cpc = "done"
    /\ members(tm, T_TEAM) = {TSid(1)}
    /\ Cardinality(members(tm, CT_TEAM)) = 3
    /\ wteam = Some(T_TEAM)
    /\ candidate[T_TEAM] = <<TSid(1), 2>>
    /\ stats[TSid(1)].cl_1v2 = 1
    /\ stats[TSid(1)].cl_1v3 = 0

(***************************************************************************)
(* Attribution of events to rounds (checked under SpecEvents).             *)
(***************************************************************************)
\* the rounds whose start and end tick enclose the tick
RoundsHolding(tick) ==
    { i \in 0..(Len(rounds) - 1) : rounds[i + 1][1] <= tick /\ tick <= rounds[i + 1][2] }

\* the latest-starting round that holds the tick, or None
ClaimedRound(tick) ==
    IF RoundsHolding(tick) = {} THEN None ELSE Some(SetMax(RoundsHolding(tick)))

DeathsDone == IF agg_ev < Len(deaths_df) THEN agg_ev ELSE Len(deaths_df)

\* the processed death rows of round i, in file order
RECURSIVE RowsOfRound(_, _)
RowsOfRound(i, k) ==
    IF k = 0 THEN <<>>
    ELSE IF ClaimedRound(deaths_df[k].tick) = Some(i)
         THEN Append(RowsOfRound(i, k - 1), deaths_df[k])
         ELSE RowsOfRound(i, k - 1)

\* the row that the step from agg_ev to agg_ev + 1 reads
IsDeathStep == agg_ev' = agg_ev + 1 /\ agg_ev < Len(deaths_df)
IsHurtStep == agg_ev' = agg_ev + 1 /\ agg_ev >= Len(deaths_df)
HurtRead == hurts_df[agg_ev - Len(deaths_df) + 1]

OpposedMembers(i, a, v) ==
    /\ a \in DOMAIN round_team[i + 1]
    /\ v \in DOMAIN round_team[i + 1]
    /\ round_team[i + 1][a] # round_team[i + 1][v]

\* an event outside every round changes nothing; a death event in a round
\* with a victim id changes the records; a damage event counts exactly when
\* attacker and victim are opposed members of the round that holds its tick
EventStepAttributed ==
    /\ IsDeathStep =>
          LET r == deaths_df[agg_ev + 1]
          IN  /\ ClaimedRound(r.tick) = None =>
                    /\ stats' = stats
                    /\ deaths_by_round' = deaths_by_round
              /\ (ClaimedRound(r.tick) # None /\ r.user_steamid # EmptySid) =>
                    stats'[r.user_steamid].deaths
                        = IF r.user_steamid \in DOMAIN stats
                          THEN stats[r.user_steamid].deaths + 1 ELSE 1
    /\ IsHurtStep =>
          LET r == HurtRead
              i == ClaimedRound(r.tick)
          IN  /\ i = None => (stats' = stats /\ total_dmg' = total_dmg)
              /\ total_dmg' # total_dmg <=>
                    /\ i # None
                    /\ r.dmg_health > 0
                    /\ OpposedMembers(i[1], r.attacker_steamid, r.user_steamid)

\* C21: every death or damage event is attributed to at most one round: to
\* the latest-starting round i with start_tick[i] <= tick <= end_tick[i]; an
\* event whose tick lies before the first start, or after a round's end and
\* before the next start, is attributed to no round and changes no counter.
C21_EventAttribution ==
    /\ [](apc \in {"deaths", "hurts", "rounds", "done"} =>
             \A i \in 0..(Len(rounds) - 1) :
                 deaths_by_round[i + 1] = RowsOfRound(i, DeathsDone))
    /\ [][EventStepAttributed]_vars

\* C21: both tables are read: a death row between the two rounds left no
\* trace, a death row at a tick that two rounds hold is in the later round
\* only, and a damage row was counted.
C21_Witness ==
    /\ apc = "done"
    /\ Len(deaths_df) = 1
    /\ Len(hurts_df) = 1
    /\ deaths_df[1].tick = 3
    /\ \/ RoundsHolding(3) = {} /\ deaths_by_round = <<<<>>, <<>>>>
       \/ RoundsHolding(3) = {0, 1} /\ deaths_by_round = <<<<>>, <<deaths_df[1]>>>>
    /\ DOMAIN total_dmg # {}

SharedTickReached ==
    /\ apc = "done"
    /\ \E k \in 1..Len(deaths_df) : RoundsHolding(deaths_df[k].tick) = {0, 1}
    /\ Len(deaths_by_round[2]) = 2

GapTickReached ==
    /\ apc = "done"
    /\ Len(deaths_df) = 2
    /\ \A k \in 1..2 : RoundsHolding(deaths_df[k].tick) = {}
    /\ \A sid \in DOMAIN stats : stats[sid].deaths = 0 /\ stats[sid].kills = 0

(***************************************************************************)
(* The duel pass over the death table (checked under SpecEvents).          *)
(***************************************************************************)
StatTotal(field) ==
    LET f[X \in SUBSET DOMAIN stats] ==
            IF X = {} THEN 0
            ELSE LET k == CHOOSE k \in X : TRUE IN stats[k][field] + f[X \ {k}]
    IN  f[DOMAIN stats]

HeadshotsWithinKills == \A sid \in DOMAIN stats : stats[sid].hs <= stats[sid].kills

FlashAssistsWithinAssists ==
    \A sid \in DOMAIN stats : stats[sid].flash_assists <= stats[sid].assists

KillsWithinDeaths == StatTotal("kills") <= StatTotal("deaths")

\* the number of processed death rows that lie in a round
RECURSIVE AttributedDeaths(_)
AttributedDeaths(k) ==
    IF k = 0 THEN 0
    ELSE AttributedDeaths(k - 1)
         + (IF ClaimedRound(deaths_df[k].tick) # None THEN 1 ELSE 0)

\* C22: after any event sequence, for every player hs <= kills and
\* flash_assists <= assists, and the sum of all kills is <= the sum of all
\* deaths, because every attributed death event adds 1 to the victim's deaths.
C22_DuelAccounting ==
    /\ HeadshotsWithinKills
    /\ FlashAssistsWithinAssists
    /\ KillsWithinDeaths

\* what the duel pass keeps: the per-player bounds, and no more kills than
\* attributed death events
DuelAccountingPerPlayer ==
    /\ HeadshotsWithinKills
    /\ FlashAssistsWithinAssists
    /\ StatTotal("kills") <= AttributedDeaths(DeathsDone)
    /\ StatTotal("deaths") <= AttributedDeaths(DeathsDone)

\* a kill is on record and no death is
KillWithoutDeath ==
    /\ apc = "done"
    /\ StatTotal("kills") = 1
    /\ StatTotal("deaths") = 0

\* the real-player tests act: a row with a world attacker and a world
\* assister added a death and neither a kill nor an assist
WorldRowCounted ==
    /\ apc = "done"
    /\ Len(deaths_df) = 1
    /\ deaths_df[1].attacker_name = "world"
    /\ StatTotal("deaths") = 1
    /\ StatTotal("kills") = 0
    /\ StatTotal("assists") = 0
    /\ StatTotal("hs") = 0

(***************************************************************************)
(* The opening duel of a round (checked under SpecEvents).                 *)
(***************************************************************************)
FieldOf(st, sid, field) == IF sid \in DOMAIN st THEN st[sid][field] ELSE 0

\* the position in rows of the earliest death event: the smallest tick, and
\* among the rows of that tick the first of the table
EarliestAt(rows) ==
    CHOOSE j \in 1..Len(rows) :
        \A k \in 1..Len(rows) :
            \/ rows[j].tick < rows[k].tick
            \/ rows[j].tick = rows[k].tick /\ j <= k

IsRoundPassStep == pass_i' = pass_i + 1

OpeningCreditsOfStep ==
    IsRoundPassStep =>
        LET rows == deaths_by_round[pass_i + 1]
        IN  IF rows = <<>>
            THEN \A sid \in DOMAIN stats' :
                    /\ stats'[sid].opening_deaths = FieldOf(stats, sid, "opening_deaths")
                    /\ stats'[sid].opening_kills = FieldOf(stats, sid, "opening_kills")
            ELSE LET first == rows[EarliestAt(rows)]
                 IN  \A sid \in DOMAIN stats' :
                        /\ stats'[sid].opening_deaths
                              = FieldOf(stats, sid, "opening_deaths")
                                + (IF sid = first.user_steamid THEN 1 ELSE 0)
                        /\ stats'[sid].opening_kills
                              = FieldOf(stats, sid, "opening_kills")
                                + (IF sid = first.attacker_steamid THEN 1 ELSE 0)

\* C23: in every round with at least one attributed death event, only the
\* earliest-tick death event yields opening credits (its victim +1
\* opening_deaths, its attacker if present +1 opening_kills); hence the sum
\* of opening_deaths and the sum of opening_kills over all players are each
\* <= the round count.
C23_OpeningDuel ==
    /\ [](/\ StatTotal("opening_deaths") <= pass_i
          /\ StatTotal("opening_kills") <= pass_i
          /\ pass_i <= seg_result.n_rounds)
    /\ [][OpeningCreditsOfStep]_vars

\* C23: a round held two death events, the later row of the table at the
\* earlier tick, and the credits went to that row alone.
C23_Witness ==
    /\ apc = "done"
    /\ Len(deaths_by_round[1]) = 2
    /\ deaths_by_round[1][1].tick = 2
    /\ deaths_by_round[1][2].tick = 1
    /\ deaths_by_round[1][1].user_steamid = CTSid(1)
    /\ deaths_by_round[1][2].user_steamid = TSid(1)
    /\ deaths_by_round[1][2].attacker_steamid = CTSid(1)
    /\ stats[TSid(1)].opening_deaths = 1
    /\ stats[CTSid(1)].opening_kills = 1
    /\ stats[CTSid(1)].opening_deaths = 0
    /\ stats[TSid(1)].opening_kills = 0

(***************************************************************************)
(* The membership of a round from its samples (checked under SpecMembers). *)
(***************************************************************************)
\* the positions of the processed samples of the player at the round's start
SamplesAt(i, sid) ==
    { j \in 1..mem_i : team_rows[j].tick = rounds[i + 1][1] /\ team_rows[j].steamid = sid }

SideCount(i, sid, side) ==
    Cardinality({ j \in SamplesAt(i, sid) : team_rows[j].team_num = side })

Disagree(i, sid) ==
    \E j, k \in SamplesAt(i, sid) : team_rows[j].team_num # team_rows[k].team_num

SamplePlayers == { team_rows[j].steamid : j \in 1..Len(team_rows) }

\* C24: when several membership samples taken at one round's start tick
\* disagree about a player's side, the side recorded for that player in that
\* round's membership is the side carried by the majority of those samples.
C24_MajoritySide ==
    mpc = "done" =>
        \A i \in 0..(Len(rounds) - 1) : \A sid \in SamplePlayers :
            \A side \in {T_TEAM, CT_TEAM} :
                (/\ Disagree(i, sid)
                 /\ \A other \in {T_TEAM, CT_TEAM} \ {side} :
                       SideCount(i, sid, side) > SideCount(i, sid, other))
                => round_team[i + 1][sid] = side

\* what the loop keeps: the side of the last sample of the player at the
\* round's start tick, and no entry for a player without such a sample
LastSampleSide ==
    mpc \in {"rows", "done"} =>
        \A i \in 0..(Len(rounds) - 1) : \A sid \in SamplePlayers :
            IF SamplesAt(i, sid) = {}
            THEN sid \notin DOMAIN round_team[i + 1]
            ELSE round_team[i + 1][sid] = team_rows[SetMax(SamplesAt(i, sid))].team_num

\* two samples say T, the last one says CT, and CT is recorded
MinoritySideRecorded ==
    /\ mpc = "done"
    /\ Len(team_rows) = 3
    /\ \A j \in 1..3 : team_rows[j].tick = 1 /\ team_rows[j].steamid = TSid(1)
    /\ team_rows[1].team_num = T_TEAM
    /\ team_rows[2].team_num = T_TEAM
    /\ team_rows[3].team_num = CT_TEAM
    /\ round_team[1][TSid(1)] = CT_TEAM

(***************************************************************************)
(* The SUPPORT role (checked under SpecScoring).                           *)
(***************************************************************************)
SupportBonusAdded(ar, before) == RSub(ar.comp["bonus"], before["bonus"])

AssistsScaledUp(ar, before) ==
    RLt(RInt(0), before["assists"]) => RLt(before["assists"], ar.comp["assists"])

\* an amount proportional to the flash-assist count: never negative, nothing
\* for no flash assist; capped
FlashBonusProportional(ar, before) ==
    /\ RLe(RInt(0), SupportBonusAdded(ar, before))
    /\ RLe(SupportBonusAdded(ar, before), RInt(3))
    /\ _i(stat, "flash_assists") = 0 => SupportBonusAdded(ar, before) = RInt(0)

\* C25: applying the SUPPORT role scales the assists component upward
\* (multiplies the pre-role assists subtotal by a factor greater than 1) and
\* adds to the bonus component an amount proportional to the flash-assist
\* count, capped.
C25_SupportScalesAssists ==
    role_badge = "SUPPORT" =>
        /\ AssistsScaledUp(AppliedRole("SUPPORT"), components_before(stat, ScoringParams))
        /\ FlashBonusProportional(AppliedRole("SUPPORT"),
                                  components_before(stat, ScoringParams))

SupportFrame(ar, before) ==
    /\ \A k \in DOMAIN before \ {"bonus"} : ar.comp[k] = before[k]
    /\ RLe(RInt(-3), SupportBonusAdded(ar, before))
    /\ RLe(SupportBonusAdded(ar, before), RInt(3))

\* what the role keeps: every component but the bonus is unchanged, and the
\* amount added to the bonus lies between -3 and 3
SupportChangesBonusOnly ==
    role_badge = "SUPPORT" =>
        SupportFrame(AppliedRole("SUPPORT"), components_before(stat, ScoringParams))

\* a SUPPORT call with assists on record whose assists component equals the
\* pre-role one and whose bonus went down
SupportAssistsUnscaled ==
    /\ spc = "returned"
    /\ role_badge = "SUPPORT"
    /\ RLt(RInt(0), breakdown.components_before["assists"])
    /\ breakdown.components_after_role["assists"] = breakdown.components_before["assists"]
    /\ RLt(breakdown.components_after_role["bonus"], breakdown.components_before["bonus"])

(***************************************************************************)
(* The round count of a returned result (checked under SpecDivisors; the   *)
(* segmentation that yields no round is reached under SpecSegmenter).      *)
(***************************************************************************)
\* C26: whenever extract_map_stats_from_demo returns a result instead of
\* aborting, the result contains at least one round (rounds >= 1); when start
\* and end markers both exist but no end tick is later than any start tick,
\* no zero-round result is returned.
C26_ResultHasRound ==
    (apc = "done" /\ derr = NoneStr) => seg_result.n_rounds >= 1

\* the segmentation finished without an error and without a round although
\* both event tables hold a row
ZeroRoundsSegmented ==
    /\ dpc = "segmented"
    /\ derr = NoneStr
    /\ ~EventsMissing(freeze_end, round_end)
    /\ seg_result.n_rounds = 0

\* the function came to its return statement with rounds = 0 and no player
ZeroRoundResult ==
    /\ apc = "done"
    /\ derr = NoneStr
    /\ ~EventsMissing(freeze_end, round_end)
    /\ seg_result.n_rounds = 0
    /\ stats = <<>>

\* the abort of lines 75-76 does act: a missing or empty event table never
\* leads to a segmentation
MissingEventsAbort ==
    EventsMissing(freeze_end, round_end) =>
        /\ dpc \in {"parse", "raised"}
        /\ seg_result = NoResult

(***************************************************************************)
(* The stored team-win bonus (checked under SpecRecalc).                   *)
(***************************************************************************)
TablesOf == {db} \cup { work[w] : w \in Workers }

FpRowsOf(tb) == { tb.fp[i] : i \in 1..Len(tb.fp) }

OnWinningTeam(row) ==
    game_map.winner_id # None /\ PlayerTeam[row.player] = game_map.winner_id

\* C27: the fantasy points that recalc_map stores for a roster player whose
\* real team is the winner of the map (Map.winner) include the flat team-win
\* bonus (breakdown team_win_bonus = TEAM_WIN_BONUS), and do not include it for
\* players of the losing team.
C27_WinnerBonusStored ==
    \A row \in FpRowsOf(db) :
        row.team_win_bonus
            = IF OnWinningTeam(row) THEN ScoringParams.TEAM_WIN_BONUS ELSE RInt(0)

\* what recalc_map stores: no row carries the bonus, whatever the winner
NoBonusStored == \A row \in FpRowsOf(db) : row.team_win_bonus = RInt(0)

\* a committed row of a player of the winning team without the bonus
WinnerWithoutBonus ==
    \E row \in FpRowsOf(db) : OnWinningTeam(row) /\ row.team_win_bonus = RInt(0)

(***************************************************************************)
(* One row per key (checked under SpecRecalc).                             *)
(***************************************************************************)
OneRowPerKey(rows, keys) ==
    \A i, j \in 1..Len(rows) : (\A f \in keys : rows[i][f] = rows[j][f]) => i = j

\* C28: after any interleaving of recalc_map runs and demo imports for the
\* same map (sequential or concurrent), there is at most one FantasyPoints row
\* per (fantasy_team, map, player) and at most one PlayerMapStats row per
\* (map, player): a repeated write for the same key overwrites the existing
\* row and never creates a duplicate.
C28_OneRowPerKey ==
    \A tb \in TablesOf :
        /\ OneRowPerKey(tb.fp, FpKey)
        /\ OneRowPerKey(tb.pms, PmsKey)

\* C28: a second import and a second recalculation have committed over rows of
\* the same keys: the stat row of player 2 holds the values written last and
\* each key has its single FantasyPoints row.
C28_Witness ==
    /\ db_commits >= 3
    /\ \A w \in Workers : wpc[w] = "idle"
    /\ Len(db.pms) = 1
    /\ db.pms[1].player = 2
    /\ db.pms[1].stat = AverageRow
    /\ Len(db.fp) = 1
    /\ db.fp[1].player = 2

\* two workers were in their transactions at once and one of them was refused
\* the write
WriteRefused ==
    \E w \in Workers :
        /\ wpc[w] \in {"import", "recalc"}
        /\ todo[w] # <<>>
        /\ ~write_allowed(w)

(***************************************************************************)
(* Recalculation after commit (checked under SpecSignalsLive).             *)
(***************************************************************************)
\* C29: every save or delete of a PlayerMapStats row whose transaction commits
\* is eventually followed, after that commit, by a recalc_map call for the
\* row's map; this holds for every later transaction as well, also after an
\* earlier transaction that queued recalculations was rolled back.
C29_RecalcFollowsCommit ==
    \A mid \in MapIds : (mid \in owed) ~> (mid \notin owed)

\* no block is open and no callback is registered, yet _pending still holds
\* the ids of a transaction that was rolled back
StalePendingAfterRollback ==
    /\ \A t \in Threads : tx[t] = "none" /\ hooks[t] = <<>>
    /\ owed = {}
    /\ pending # None

\* a committed stat write of map 1 awaits its recalculation while no callback
\* is registered anywhere and _pending is set: no later transaction will
\* register the flush
RecalcNeverQueued ==
    /\ \A t \in Threads : tx[t] = "none" /\ hooks[t] = <<>>
    /\ 1 \in owed
    /\ pending # None

(***************************************************************************)
(* The shared pending set (checked under SpecSignals).                     *)
(***************************************************************************)
FlushOncePerMap ==
    \A i, j \in 1..Len(flush_ids) : flush_ids[i] = flush_ids[j] => i = j

\* C30: when several transactions (threads) queue recalculations concurrently
\* through the shared pending set, recalc_map for a queued map id runs only
\* after the transaction that queued that id has committed (never by another
\* transaction's commit while the queuing transaction is still open), and it
\* runs once per map id per flush.
C30_FlushAfterOwnCommit ==
    /\ FlushOncePerMap
    /\ SeqElems(flush_ids) \subseteq flush_due

\* a commit flushed map 2, which only a still open transaction has queued
FlushedBeforeCommit ==
    /\ 2 \in SeqElems(flush_ids)
    /\ 2 \notin flush_due
    /\ \E t \in Threads : tx[t] = "open" /\ 2 \in queued[t]

====
